---- MODULE Spec2Model ----
(***************************************************************************)
(* Model of the template engine of export-docgen (src/template-engine.js): *)
(* analyzeTemplate / analyzeSheet (zone detection) and                     *)
(* generateFromTemplate / rebuildSheetSurgical (structural rewrite).       *)
(*                                                                         *)
(* Representation.  A worksheet part is a record                           *)
(*   [rows, merges, dimension, autoFilter, condFmt]; dimension and         *)
(* autoFilter hold the ref attribute of the node, <<>> when the sheet has  *)
(* no such node, and condFmt holds the sqref of each conditionalFormatting *)
(* node.  A row is [r, ht, cells]; a cell is [ref, s, t, v, f]             *)
(* where ref = [col, row] stands for the A1-text of the "r" attribute      *)
(* (column letters are kept as the column number), v = "" stands for a     *)
(* cell without a <v> node, and f is the formula text as a sequence of     *)
(* tokens (<<>> = no <f> node).  Sequences are 1-based: JavaScript index i *)
(* is index i+1 here and the JavaScript index -1 is 0.  An archive is the  *)
(* record of its parts [sheet, hasSst, sst, wbName, styles]; hasSst tells  *)
(* whether the shared-string part exists.                                  *)
(***************************************************************************)
EXTENDS Integers, Sequences, FiniteSets, TLC

\* ------------------------------------------------------------------------
\* Bounds of the explored inputs
\* ------------------------------------------------------------------------
MaxData == 3
MaxFooter == 2
MaxNew == 5

\* ------------------------------------------------------------------------
\* Text helpers.  Texts are drawn from a small vocabulary; the predicates the
\* code applies to a text are tabulated over that vocabulary.
\* ------------------------------------------------------------------------
NumStr == <<"0", "1", "2", "3", "4", "5", "6", "7", "8", "9", "10", "11",
            "12", "13", "14", "15", "16", "17", "18", "19", "20">>

\* String(n) for a small non-negative integer n
ToStr(n) == NumStr[n + 1]

NaN == -1

\* parseInt(v): the integer the leading decimal digits of the text denote,
\* NaN for a text that does not start with a digit
ParseInt(v) ==
    IF \E n \in 1..Len(NumStr) : NumStr[n] = v
    THEN (CHOOSE n \in 1..Len(NumStr) : NumStr[n] = v) - 1
    ELSE IF v = "1.5" THEN 1
    ELSE IF v = "3 pcs" THEN 3
    ELSE NaN

\* the texts of the vocabulary that are numbers as a whole
NumericTexts == {NumStr[n] : n \in 1..Len(NumStr)} \cup {"1.5"}

\* isNumeric(v): !isNaN(v) && !isNaN(parseFloat(v)), false for ''
isNumeric(v) == v # "" /\ v \in NumericTexts

\* texts of 30 characters or more
LongTexts == {"Description of the goods and services"}

\* t.length < 30
IsShort(t) == t \notin LongTexts

\* the texts of the vocabulary that contain one of the total markers
TotalTexts == {"Total", "Subtotal", "Grand Total"}

HasTotalText(t) == t \in TotalTexts

\* the exact caption markers
NoMarkers == {"No.", "No", "STT", "#"}

\* ------------------------------------------------------------------------
\* Formula text as tokens
\* ------------------------------------------------------------------------
TokRef(c, r) == [k |-> "ref", col |-> c, row |-> r]
TokColon == [k |-> "colon", col |-> 0, row |-> 0]
TokSum == [k |-> "SUM(", col |-> 0, row |-> 0]
TokClose == [k |-> ")", col |-> 0, row |-> 0]
TokMul == [k |-> "*", col |-> 0, row |-> 0]

\* the function name LOG<n> with its opening parenthesis, as in LOG10(
TokLog(n) == [k |-> "LOG", col |-> 0, row |-> n]

\* the token's text is capital letters followed by digits: what the
\* pattern ([A-Z]+)(\d+) matches
LettersThenDigits(tok) == tok.k \in {"ref", "LOG"}

\* formula.includes('SUM')
IncludesSUM(f) == \E i \in 1..Len(f) : f[i].k = "SUM("

Cell(c, r, s, t, v, f) ==
    [ref |-> [col |-> c, row |-> r], s |-> s, t |-> t, v |-> v, f |-> f]

\* colToRef: the column letters of the column number col
ColLetters == <<"A", "B", "C", "D", "E", "F", "G", "H", "I", "J", "K", "L", "M",
                "N", "O", "P", "Q", "R", "S", "T", "U", "V", "W", "X", "Y", "Z">>

RECURSIVE colToRef(_)
colToRef(col) ==
    IF col <= 0 THEN ""
    ELSE colToRef((col - 1) \div 26) \o ColLetters[((col - 1) % 26) + 1]

\* the items of a ref or sqref attribute: a two-corner range c1 r1 : c2 r2
\* and a single cell
SqRange(c1, r1, c2, r2) == [k |-> "range", c1 |-> c1, r1 |-> r1, c2 |-> c2, r2 |-> r2]
SqCell(c, r) == [k |-> "cell", c1 |-> c, r1 |-> r, c2 |-> c, r2 |-> r]

\* the ref "A1:<lastCol><lastRow>" of the dimension node
DimensionRef(lastCol, lastRow) == [c1 |-> "A", r1 |-> 1, c2 |-> lastCol, r2 |-> lastRow]

\* ------------------------------------------------------------------------
\* Template inputs: the explored family of template workbooks
\* ------------------------------------------------------------------------
\* display texts of the template's shared-string part, JavaScript index 0..8
TplTexts == <<"Invoice", "No.", "Item", "Qty", "Code", "Pen", "Total", "Fruit", "no.">>

\* the <si> elements of the part: entry 0 carries rich-text runs
TplSst == [i \in 1..Len(TplTexts) |-> [text |-> TplTexts[i], rich |-> (i = 1), ns |-> FALSE]]

MergeKinds == {"none", "header", "data", "footer", "dataToFooter", "headerToData",
               "headerToFooter", "all"}

TitleRow(r) == [r |-> r, ht |-> "", cells |-> <<Cell(1, r, "9", "s", "0", <<>>)>>]

CaptionRow(r, cap) ==
    [r |-> r, ht |-> "20",
     cells |-> <<Cell(1, r, "8", "s", IF cap = "marker" THEN "1" ELSE "4", <<>>),
                 Cell(2, r, "8", "s", "2", <<>>),
                 Cell(3, r, "8", "s", "3", <<>>)>>]

\* a sub-caption row: empty first cell, one text cell
SubRow(r) ==
    [r |-> r, ht |-> "",
     cells |-> <<Cell(1, r, "8", "", "", <<>>), Cell(2, r, "8", "s", "7", <<>>)>>]

\* the i-th example data row (i = 1..d): alternating styles and heights
DataRow(r, i) ==
    [r |-> r, ht |-> IF i % 2 = 1 THEN "15" ELSE "",
     cells |-> <<Cell(1, r, IF i % 2 = 1 THEN "1" ELSE "4", "", ToStr(i), <<>>),
                 Cell(2, r, IF i % 2 = 1 THEN "2" ELSE "5", "s", "5", <<>>),
                 Cell(3, r, IF i % 2 = 1 THEN "3" ELSE "6", "", "10", <<>>)>>]

\* footer row j = 1: "Total" and =SUM(C<ds>:C<de>);
\* footer row j = 2: =C<first footer row>*B<caption row> (single references)
FooterRow(r, j, cr, ds, de, fs) ==
    [r |-> r, ht |-> "",
     cells |-> IF j = 1
               THEN <<Cell(1, r, "7", "s", "6", <<>>),
                      Cell(3, r, "7", "", "30",
                           <<TokSum, TokRef(3, ds), TokColon, TokRef(3, de), TokClose>>)>>
               ELSE <<Cell(3, r, "7", "", "3",
                           <<TokRef(3, fs), TokMul, TokRef(2, cr)>>)>>]

Merge(c1, r1, c2, r2) == [c1 |-> c1, r1 |-> r1, c2 |-> c2, r2 |-> r2]

MergeOf(kind, cr, ds, de, fs) ==
    CASE kind = "header" -> Merge(1, 1, 3, 1)
      [] kind = "data" -> Merge(2, ds, 3, ds)
      [] kind = "footer" -> Merge(1, fs, 2, fs)
      [] kind = "dataToFooter" -> Merge(1, de, 1, fs)
      [] kind = "headerToData" -> Merge(1, cr, 1, ds)
      [] kind = "headerToFooter" -> Merge(1, cr, 1, fs)

AllMergeKinds == <<"header", "data", "footer", "dataToFooter", "headerToData",
                   "headerToFooter">>

\* the worksheet part of the template with h title rows, caption kind cap,
\* an optional sub-caption row, d data rows, f footer rows and merges mk
BuildSheet(h, cap, sub, d, f, mk) ==
    LET cr == h + 1
        ds == cr + 1 + (IF sub THEN 1 ELSE 0)
        de == ds + d - 1
        fs == de + 1
        titles == [i \in 1..h |-> TitleRow(i)]
        subs == IF sub THEN <<SubRow(cr + 1)>> ELSE <<>>
        datas == [i \in 1..d |-> DataRow(ds + i - 1, i)]
        foots == [j \in 1..f |-> FooterRow(fs + j - 1, j, cr, ds, de, fs)]
    IN  [rows |-> titles \o <<CaptionRow(cr, cap)>> \o subs \o datas \o foots,
         merges |-> IF mk = "none" THEN <<>>
                    ELSE IF mk = "all"
                         THEN [i \in 1..Len(AllMergeKinds) |->
                                  MergeOf(AllMergeKinds[i], cr, ds, de, fs)]
                         ELSE <<MergeOf(mk, cr, ds, de, fs)>>,
         dimension |-> <<>>, autoFilter |-> <<>>, condFmt |-> <<>>]

\* worksheets in which no caption row can be anchored: no row at all, or
\* only rows without cells
BlankSheet(n) ==
    [rows |-> [i \in 1..n |-> [r |-> i, ht |-> "", cells |-> <<>>]], merges |-> <<>>,
     dimension |-> <<>>, autoFilter |-> <<>>, condFmt |-> <<>>]

\* Further row shapes.  A row of kind k numbered r; i is the ordinal of a
\* data row.
\*   "title"       one text cell
\*   "wide"        three text cells, none a caption marker
\*   "caption"     No. / Item / Qty            "plain"  Code / Item / Qty
\*   "lower"       no. / Item / Qty
\*   "empty"       a row without cells
\*   "data"        the i-th example data row
\*   "textFirst"   first cell a shared string ("Fruit"), second cell text
\*   "inlineFirst" first cell text kept in the cell itself (t="str")
\*   "blankFirst"  first cell without value, second cell text
RowKindsOfSheet == {"title", "wide", "caption", "plain", "lower", "empty", "data",
                    "textFirst", "inlineFirst", "blankFirst"}

RowOfKind(k, r, i) ==
    CASE k = "title" -> TitleRow(r)
      [] k = "wide" -> [r |-> r, ht |-> "",
                        cells |-> <<Cell(1, r, "9", "s", "0", <<>>),
                                    Cell(2, r, "9", "s", "2", <<>>),
                                    Cell(3, r, "9", "s", "3", <<>>)>>]
      [] k = "caption" -> CaptionRow(r, "marker")
      [] k = "plain" -> CaptionRow(r, "plain")
      [] k = "lower" -> [r |-> r, ht |-> "20",
                         cells |-> <<Cell(1, r, "8", "s", "8", <<>>),
                                     Cell(2, r, "8", "s", "2", <<>>),
                                     Cell(3, r, "8", "s", "3", <<>>)>>]
      [] k = "empty" -> [r |-> r, ht |-> "", cells |-> <<>>]
      [] k = "data" -> DataRow(r, i)
      [] k = "textFirst" -> [r |-> r, ht |-> "",
                             cells |-> <<Cell(1, r, "8", "s", "7", <<>>),
                                         Cell(2, r, "8", "s", "2", <<>>)>>]
      [] k = "inlineFirst" -> [r |-> r, ht |-> "",
                               cells |-> <<Cell(1, r, "8", "str", "Fruit", <<>>)>>]
      [] k = "blankFirst" -> SubRow(r)

\* the footer row of kind k numbered r for the data rows ds..de:
\*   "total"  "Total" and =SUM(C<ds>:C<de>)     "sum"   the formula alone
\*   "text"   the text "Subtotal" alone         "wide"  four cells, with the formula
FootKinds == {"none", "total", "sum", "text", "wide"}

FootOfKind(k, r, ds, de) ==
    CASE k = "total" -> <<FooterRow(r, 1, ds - 1, ds, de, r)>>
      [] k = "sum" -> <<[r |-> r, ht |-> "",
                         cells |-> <<Cell(3, r, "7", "", "30",
                                          <<TokSum, TokRef(3, ds), TokColon, TokRef(3, de),
                                            TokClose>>)>>]>>
      [] k = "text" -> <<[r |-> r, ht |-> "",
                          cells |-> <<Cell(1, r, "7", "str", "Subtotal", <<>>),
                                      Cell(3, r, "7", "", "30", <<>>)>>]>>
      [] k = "wide" -> <<[r |-> r, ht |-> "",
                          cells |-> <<Cell(1, r, "7", "s", "6", <<>>),
                                      Cell(2, r, "7", "", "", <<>>),
                                      Cell(3, r, "7", "", "30",
                                           <<TokSum, TokRef(3, ds), TokColon, TokRef(3, de),
                                             TokClose>>),
                                      Cell(4, r, "7", "", "", <<>>)>>]>>
      [] k = "none" -> <<>>

\* the worksheet whose rows 1..Len(kinds) have the given kinds, the data
\* rows counted from row ds, followed by a footer row of kind foot
ShapeSheet(kinds, ds, foot) ==
    [rows |-> [i \in 1..Len(kinds) |-> RowOfKind(kinds[i], i, i - ds + 1)]
              \o FootOfKind(foot, Len(kinds) + 1, ds, Len(kinds)),
     merges |-> <<>>,
     dimension |-> <<>>, autoFilter |-> <<>>, condFmt |-> <<>>]

\* n rows of kind k
Repeat(k, n) == [i \in 1..n |-> k]

\* a worksheet that needs no shared-string part: text is kept in the cells
\* (t="str"); the caption and data cells occupy columns c0..c0+2
InlineSheet(c0, d, foot) ==
    [rows |-> <<[r |-> 1, ht |-> "20",
                 cells |-> <<Cell(c0, 1, "8", "str", "No.", <<>>),
                             Cell(c0 + 1, 1, "8", "str", "Item", <<>>),
                             Cell(c0 + 2, 1, "8", "str", "Qty", <<>>)>>]>>
              \o [i \in 1..d |->
                     [r |-> i + 1, ht |-> "15",
                      cells |-> <<Cell(c0, i + 1, "1", "", ToStr(i), <<>>),
                                  Cell(c0 + 1, i + 1, "2", "str", "Pen", <<>>),
                                  Cell(c0 + 2, i + 1, "3", "", "10", <<>>)>>]]
              \o FootOfKind(foot, d + 2, 2, d + 1),
     merges |-> <<>>,
     dimension |-> <<>>, autoFilter |-> <<>>, condFmt |-> <<>>]

\* d data rows, each with styles and a height of its own
StyledSheet(d) ==
    [rows |-> <<CaptionRow(1, "marker")>>
              \o [i \in 1..d |->
                     [r |-> i + 1, ht |-> ToStr(10 + i),
                      cells |-> <<Cell(1, i + 1, ToStr(10 + i), "", ToStr(i), <<>>),
                                  Cell(2, i + 1, ToStr(10 + i), "s", "5", <<>>)>>]]
              \o FootOfKind("total", d + 2, 2, d + 1),
     merges |-> <<>>,
     dimension |-> <<>>, autoFilter |-> <<>>, condFmt |-> <<>>]

\* three footer rows numbered from r for the data rows ds..de: the total
\* row, =LOG10(C<r>), and =SUM(C<r>:C<r+1>) over the two footer rows above it
SubtotalRows(r, ds, de) ==
    <<FooterRow(r, 1, ds - 1, ds, de, r),
      [r |-> r + 1, ht |-> "",
       cells |-> <<Cell(3, r + 1, "7", "", "1", <<TokLog(10), TokRef(3, r), TokClose>>)>>],
      [r |-> r + 2, ht |-> "",
       cells |-> <<Cell(3, r + 2, "7", "", "31",
                        <<TokSum, TokRef(3, r), TokColon, TokRef(3, r + 1), TokClose>>)>>]>>

\* a worksheet with a dimension node, an autoFilter node and
\* conditionalFormatting nodes: a title row, the caption row, d data rows
\* from row 3 and, when footer is TRUE, the three subtotal rows.  The
\* autoFilter covers the caption and data rows (af = "data") or the first
\* two footer rows (af = "footer"); the conditional formats cover the
\* quantity column of the data rows, the title row and a footer cell, the
\* footer rows, the caption and first data row, and the data rows next to
\* the title row in one sqref
RangedSheet(d, footer, af) ==
    [rows |-> <<TitleRow(1), CaptionRow(2, "marker")>>
              \o [i \in 1..d |-> DataRow(2 + i, i)]
              \o (IF footer THEN SubtotalRows(3 + d, 3, 2 + d) ELSE <<>>),
     merges |-> <<>>,
     dimension |-> <<DimensionRef("C", IF footer THEN 5 + d ELSE 2 + d)>>,
     autoFilter |-> IF af = "data" THEN <<SqRange(1, 2, 3, 2 + d)>>
                    ELSE <<SqRange(1, 3 + d, 3, 4 + d)>>,
     condFmt |-> <<<<SqRange(3, 3, 3, 2 + d)>>,
                   <<SqRange(1, 1, 3, 1), SqCell(2, 3 + d)>>>>
                 \o (IF footer THEN <<<<SqRange(3, 3 + d, 3, 5 + d)>>>> ELSE <<>>)
                 \o <<<<SqRange(1, 2, 3, 3)>>,
                      <<SqRange(1, 3, 2, 2 + d), SqRange(1, 1, 3, 1)>>>>]

\* ------------------------------------------------------------------------
\* analyzeSheet
\* ------------------------------------------------------------------------
\* sharedStrings[parseInt(value)] is a non-empty string
ResolvesShared(value, sharedStrings) ==
    /\ ParseInt(value) # NaN
    /\ ParseInt(value) + 1 <= Len(sharedStrings)
    /\ sharedStrings[ParseInt(value) + 1] # ""

\* the parsed cell: raw value, display value, column, formula text
ParseCell(c, sharedStrings) ==
    [ref |-> c.ref, s |-> c.s, t |-> c.t, value |-> c.v,
     displayValue |-> IF c.t = "s" /\ ResolvesShared(c.v, sharedStrings)
                      THEN sharedStrings[ParseInt(c.v) + 1]
                      ELSE c.v,
     col |-> c.ref.col,
     formula |-> c.f]

ParseRows(sheet, sharedStrings) ==
    [i \in 1..Len(sheet.rows) |->
        [rowNum |-> sheet.rows[i].r,
         ht |-> sheet.rows[i].ht,
         cells |-> [j \in 1..Len(sheet.rows[i].cells) |->
                       ParseCell(sheet.rows[i].cells[j], sharedStrings)]]]

\* the caption test of the marker search for the row at index i
LooksLikeCaption(rows, i) ==
    LET r == rows[i]
        texts == [j \in 1..Len(r.cells) |-> r.cells[j].displayValue]
    IN  /\ Len(r.cells) >= 3
        /\ \A j \in 1..Len(texts) : IsShort(texts[j])
        /\ Cardinality({j \in 1..Len(texts) : texts[j] # ""}) >= 3
        /\ i + 1 <= Len(rows)
        /\ Len(rows[i + 1].cells) > 0
        /\ \E j \in 1..Len(texts) : texts[j] \in NoMarkers

\* index of the first row passing the caption test, 0 when there is none
MarkerHeaderIdx(rows) ==
    IF \E i \in 1..Len(rows) : LooksLikeCaption(rows, i)
    THEN CHOOSE i \in 1..Len(rows) :
            /\ LooksLikeCaption(rows, i)
            /\ \A k \in 1..(i - 1) : ~LooksLikeCaption(rows, k)
    ELSE 0

Min(a, b) == IF a <= b THEN a ELSE b
Max(a, b) == IF a >= b THEN a ELSE b

FallbackWindow == 20

\* the fallback: first row of strictly greatest cell count among the first
\* 20 rows; 0 when every one of them has no cell
FallbackHeaderIdx(rows) ==
    LET win == 1..Min(Len(rows), FallbackWindow)
    IN  IF \E i \in win : Len(rows[i].cells) > 0
        THEN CHOOSE i \in win :
                /\ \A k \in win : Len(rows[k].cells) <= Len(rows[i].cells)
                /\ \A k \in 1..(i - 1) : Len(rows[k].cells) < Len(rows[i].cells)
        ELSE 0

HeaderRowIdx(rows) ==
    IF MarkerHeaderIdx(rows) # 0 THEN MarkerHeaderIdx(rows) ELSE FallbackHeaderIdx(rows)

\* firstCellVal && !isNaN(parseInt(firstCellVal))
FirstCellIsInt(r) ==
    /\ Len(r.cells) >= 1
    /\ r.cells[1].value # ""
    /\ ParseInt(r.cells[1].value) # NaN

\* index of the first row after the caption row whose first cell is an
\* integer; Len(rows) + 1 when the scan runs off the sheet
DataStartIdx(rows, headerIdx) ==
    LET cand == {i \in (headerIdx + 1)..Len(rows) : FirstCellIsInt(rows[i])}
    IN  IF cand = {} THEN Len(rows) + 1
        ELSE CHOOSE i \in cand : \A k \in cand : i <= k

IsFooterMarkerRow(r) ==
    \/ \E j \in 1..Len(r.cells) : IncludesSUM(r.cells[j].formula)
    \/ \E j \in 1..Len(r.cells) : HasTotalText(r.cells[j].displayValue)

\* variant: the zone ends at the first marked row, not before it
DataEndIdxAtMarker(rows, dataStartIdx) ==
    LET cand == {i \in dataStartIdx..Len(rows) : IsFooterMarkerRow(rows[i])}
    IN  IF cand = {} THEN Len(rows)
        ELSE CHOOSE i \in cand : \A k \in cand : i <= k

\* index of the last data-zone row
DataEndIdx(rows, dataStartIdx) ==
    LET cand == {i \in dataStartIdx..Len(rows) : IsFooterMarkerRow(rows[i])}
    IN  IF cand = {} THEN Len(rows)
        ELSE (CHOOSE i \in cand : \A k \in cand : i <= k) - 1

\* the subsequence of s at the indices in idx, in order
RECURSIVE SelectIdx(_, _, _)
SelectIdx(s, from, idx) ==
    IF from > Len(s) THEN <<>>
    ELSE (IF from \in idx THEN <<s[from]>> ELSE <<>>) \o SelectIdx(s, from + 1, idx)

\* rows of [dataStartIdx, dataEndIdx] with an integer first cell
ActualDataRows(rows, dataStartIdx, dataEndIdx) ==
    SelectIdx(rows, 1, {i \in dataStartIdx..dataEndIdx : FirstCellIsInt(rows[i])})

\* rows of [dataStartIdx, dataEndIdx] without an integer first cell and with
\* a non-empty first display text
CategoryRows(rows, dataStartIdx, dataEndIdx) ==
    SelectIdx(rows, 1, {i \in dataStartIdx..dataEndIdx :
                           /\ ~FirstCellIsInt(rows[i])
                           /\ Len(rows[i].cells) >= 1
                           /\ rows[i].cells[1].displayValue # ""})

MaxPatterns == 4

\* style patterns of the first four data rows
StylePatterns(dataRows) ==
    [i \in 1..Min(Len(dataRows), MaxPatterns) |->
        [rowNum |-> dataRows[i].rowNum,
         ht |-> dataRows[i].ht,
         pattern |-> [j \in 1..Len(dataRows[i].cells) |->
                         [col |-> dataRows[i].cells[j].col,
                          style |-> dataRows[i].cells[j].s]]]]

RECURSIVE SeqMax(_)
SeqMax(s) == IF Len(s) = 1 THEN s[1] ELSE Max(s[1], SeqMax(Tail(s)))

\* lines 419-447: the analysis record
ZoneMap(sheet, rows, headerIdx, dataStartIdx, dataEndIdx, dataRows) ==
    [ok |-> TRUE,
     headerZone |-> [rows |-> SubSeq(rows, 1, headerIdx - 1),
                     endRow |-> rows[headerIdx].rowNum - 1],
     columnHeaderRow |->
         [rowNum |-> rows[headerIdx].rowNum,
          headers |-> [j \in 1..Len(rows[headerIdx].cells) |->
                          [col |-> rows[headerIdx].cells[j].col,
                           label |-> rows[headerIdx].cells[j].displayValue,
                           style |-> rows[headerIdx].cells[j].s]]],
     dataZone |->
         [startRowNum |-> IF dataStartIdx <= Len(rows)
                          THEN rows[dataStartIdx].rowNum
                          ELSE rows[headerIdx].rowNum + 2,
          endRowNum |-> IF dataEndIdx >= 1
                        THEN rows[dataEndIdx].rowNum
                        ELSE rows[headerIdx].rowNum + 10,
          startIdx |-> dataStartIdx,
          endIdx |-> dataEndIdx,
          dataRows |-> dataRows,
          categoryRows |-> CategoryRows(rows, dataStartIdx, dataEndIdx),
          stylePatterns |-> StylePatterns(dataRows)],
     footerZone |-> [startIdx |-> dataEndIdx + 1,
                     rows |-> SubSeq(rows, dataEndIdx + 1, Len(rows))],
     mergeCells |-> sheet.merges,
     maxCol |-> SeqMax([j \in 1..Len(rows[headerIdx].cells) |-> rows[headerIdx].cells[j].col]),
     totalRows |-> Len(rows),
     rawRows |-> rows]

\* lines 341-370, from the data start on
ZonesFromDataStart(sheet, rows, headerIdx, dataStartIdx, dataEndIdx) ==
    ZoneMap(sheet, rows, headerIdx, dataStartIdx, dataEndIdx,
            ActualDataRows(rows, dataStartIdx, dataEndIdx))

\* lines 329-355, from the caption row on
ZonesFromHeader(sheet, rows, headerIdx, dataStartIdx) ==
    ZonesFromDataStart(sheet, rows, headerIdx, dataStartIdx, DataEndIdx(rows, dataStartIdx))

\* lines 291-448 on the parsed rows: without a caption row headerRow is null
\* and headerRow.cells (line 376) raises a TypeError
AnalyzeRows(sheet, rows, headerIdx) ==
    IF headerIdx = 0
    THEN [ok |-> FALSE, error |-> "TypeError"]
    ELSE ZonesFromHeader(sheet, rows, headerIdx, DataStartIdx(rows, headerIdx))

ZonesOfRows(sheet, rows) == AnalyzeRows(sheet, rows, HeaderRowIdx(rows))

\* the value analyzeSheet returns, or the error it throws
analyzeSheet(sheet, sharedStrings) == ZonesOfRows(sheet, ParseRows(sheet, sharedStrings))

\* ------------------------------------------------------------------------
\* Shared strings
\* ------------------------------------------------------------------------
\* escapeXml(str) over the vocabulary: only "R&D" holds a special character
escapeXml(str) == IF str = "R&D" THEN "R&amp;D" ELSE str

\* the inverse reading of an escaped text node by the XML parser
UnescapeXml(str) == IF str = "R&amp;D" THEN "R&D" ELSE str

\* parseSharedStrings: display texts and raw <si> markup of the part (an
\* absent part gives two empty lists); XMLSerializer writes the namespace
\* declaration on every serialized <si>
parseSharedStrings(sst) ==
    [strings |-> [i \in 1..Len(sst) |-> UnescapeXml(sst[i].text)],
     rawSiElements |-> [i \in 1..Len(sst) |-> [sst[i] EXCEPT !.ns = TRUE]]]

\* buildSharedStringsXmlPreserved: the <si> elements in order, namespace
\* declarations stripped
buildSharedStringsXmlPreserved(rawSiElements) ==
    [i \in 1..Len(rawSiElements) |-> [rawSiElements[i] EXCEPT !.ns = FALSE]]

\* origSharedStrings.forEach((s, i) => { ssIndexMap[s] = i; }): the last
\* index of each text (JavaScript indices)
PreIndex(strings) ==
    [t \in {strings[i] : i \in 1..Len(strings)} |->
        (CHOOSE i \in 1..Len(strings) :
            /\ strings[i] = t
            /\ \A k \in (i + 1)..Len(strings) : strings[k] # t) - 1]

\* newSharedStrings.indexOf(key), JavaScript index, -1 when absent
IndexOf(strings, key) ==
    IF \E i \in 1..Len(strings) : strings[i] = key
    THEN (CHOOSE i \in 1..Len(strings) :
            /\ strings[i] = key
            /\ \A k \in 1..(i - 1) : strings[k] # key) - 1
    ELSE -1

\* ssIndexMap is a plain object ({}), so ssIndexMap[key] also finds the
\* members every object inherits from Object.prototype; the vocabulary has
\* two of them
ProtoKeys == {"constructor", "toString"}

\* stands for the value read from an inherited member: a function object,
\* which is not a number
InheritedFunction == -2

\* String(ssIdx)
IdxText(idx) ==
    IF idx = InheritedFunction THEN "function () { [native code] }" ELSE ToStr(idx)

\* variant: a new text is put in front of the table instead of at its end
getOrAddSharedStringUnshift(st, key) ==
    IF key \in DOMAIN st.map
    THEN [st |-> st, idx |-> st.map[key]]
    ELSE IF key \in ProtoKeys
    THEN [st |-> st, idx |-> InheritedFunction]
    ELSE [st |-> [strings |-> <<key>> \o st.strings,
                  raws |-> <<[text |-> escapeXml(key), rich |-> FALSE, ns |-> TRUE]>>
                           \o st.raws,
                  map |-> [t \in DOMAIN st.map \cup {key} |->
                              IF t = key THEN 0 ELSE st.map[t]]],
          idx |-> 0]

\* getOrAddSharedString on the closure state st = [strings, raws, map]:
\* the state after the call and the index returned
getOrAddSharedString(st, key) ==
    IF key \in DOMAIN st.map
    THEN [st |-> st, idx |-> st.map[key]]
    ELSE IF key \in ProtoKeys
    THEN [st |-> st, idx |-> InheritedFunction]
    ELSE IF IndexOf(st.strings, key) # -1
    THEN [st |-> [st EXCEPT !.map = [t \in DOMAIN st.map \cup {key} |->
                                        IF t = key THEN IndexOf(st.strings, key)
                                        ELSE st.map[t]]],
          idx |-> IndexOf(st.strings, key)]
    ELSE [st |-> [strings |-> Append(st.strings, key),
                  raws |-> Append(st.raws, [text |-> escapeXml(key), rich |-> FALSE,
                                            ns |-> TRUE]),
                  map |-> [t \in DOMAIN st.map \cup {key} |->
                              IF t = key THEN Len(st.strings) ELSE st.map[t]]],
          idx |-> Len(st.strings)]

\* ------------------------------------------------------------------------
\* Formula and range rewriting
\* ------------------------------------------------------------------------
RangeSlack == 20

\* the replacement the range pass writes for the match c1 r1 : c2 r2
RewriteRange(a, b, origDataStart, origDataEnd, newDataEnd, origFooterStart, newFooterStart) ==
    IF a.row >= origDataStart /\ a.row <= origDataEnd + RangeSlack /\ b.row >= origDataStart
    THEN <<TokRef(a.col, IF a.row >= origFooterStart
                         THEN newFooterStart + (a.row - origFooterStart)
                         ELSE a.row),
           TokColon,
           TokRef(b.col, IF b.row >= origFooterStart
                         THEN newFooterStart + (b.row - origFooterStart)
                         ELSE newDataEnd)>>
    ELSE <<a, TokColon, b>>

\* first replace(): every match of <Col><Row>:<Col><Row>, left to right
RECURSIVE RangePass(_, _, _, _, _, _)
RangePass(f, origDataStart, origDataEnd, newDataEnd, origFooterStart, newFooterStart) ==
    IF Len(f) = 0 THEN <<>>
    ELSE IF Len(f) >= 3 /\ f[1].k = "ref" /\ f[2].k = "colon" /\ f[3].k = "ref"
    THEN RewriteRange(f[1], f[3], origDataStart, origDataEnd, newDataEnd,
                      origFooterStart, newFooterStart)
         \o RangePass(SubSeq(f, 4, Len(f)), origDataStart, origDataEnd, newDataEnd,
                      origFooterStart, newFooterStart)
    ELSE <<f[1]>> \o RangePass(Tail(f), origDataStart, origDataEnd, newDataEnd,
                               origFooterStart, newFooterStart)

\* second replace(): every letters-then-digits text that is not followed
\* by ':' or a digit, which includes the end corner of a range and a
\* function name that ends in digits
SinglePass(f, origFooterStart, newFooterStart) ==
    [i \in 1..Len(f) |->
        IF /\ LettersThenDigits(f[i])
           /\ ~(i + 1 <= Len(f) /\ f[i + 1].k = "colon")
           /\ f[i].row >= origFooterStart
        THEN [f[i] EXCEPT !.row = newFooterStart + (f[i].row - origFooterStart)]
        ELSE f[i]]

updateFormulaRangesGeneric(formula, origDataStart, origDataEnd, newDataStart, newDataEnd, origFooterStart, newFooterStart) ==
    SinglePass(RangePass(formula, origDataStart, origDataEnd, newDataEnd,
                         origFooterStart, newFooterStart),
               origFooterStart, newFooterStart)

\* updateMergeCells on the merge list
updateMergeCells(merges, dataStart, origDataEnd, newDataEnd, origFooterStart, rowShift) ==
    LET kept == SelectIdx(merges, 1,
                    {i \in 1..Len(merges) :
                        ~(merges[i].r1 >= dataStart /\ merges[i].r2 <= origDataEnd)})
    IN  [i \in 1..Len(kept) |->
            IF kept[i].r1 >= origFooterStart
            THEN [kept[i] EXCEPT !.r1 = @ + rowShift, !.r2 = @ + rowShift]
            ELSE IF kept[i].r1 < dataStart /\ kept[i].r2 >= origFooterStart
            THEN [kept[i] EXCEPT !.r2 = @ + rowShift]
            ELSE kept[i]]

\* variant: a range that ends on the last data row is left alone
adjustRangeRefPastEnd(sqref, origDataEnd, rowShift) ==
    [i \in 1..Len(sqref) |->
        IF sqref[i].k = "range" /\ sqref[i].r2 > origDataEnd
        THEN [sqref[i] EXCEPT !.r2 = @ + rowShift]
        ELSE sqref[i]]

\* adjustRangeRef: every two-corner range of the sqref, left to right
adjustRangeRef(sqref, origDataEnd, rowShift) ==
    [i \in 1..Len(sqref) |->
        IF sqref[i].k = "range" /\ sqref[i].r2 >= origDataEnd
        THEN [sqref[i] EXCEPT !.r2 = @ + rowShift]
        ELSE sqref[i]]

\* ------------------------------------------------------------------------
\* rebuildSheetSurgical
\* ------------------------------------------------------------------------
\* updateCellValue: the cell after the update and the closure state
SetSharedString(cell, g) ==
    [cell |-> [cell EXCEPT !.t = "s", !.v = IdxText(g.idx)], st |-> g.st]

\* variant: a numeric value leaves the type attribute of the cell in place
updateCellValueKeepType(cell, newValue, st) ==
    IF isNumeric(newValue)
    THEN [cell |-> [cell EXCEPT !.v = newValue], st |-> st]
    ELSE SetSharedString(cell, getOrAddSharedString(st, newValue))

updateCellValue(cell, newValue, st) ==
    IF isNumeric(newValue)
    THEN [cell |-> [cell EXCEPT !.t = "", !.v = newValue], st |-> st]
    ELSE SetSharedString(cell, getOrAddSharedString(st, newValue))

\* Step 1, inner loop: the cells of one row from index j on
RECURSIVE UpdateCells(_, _, _, _)
UpdateCellsFrom(cells, j, upd, u) ==
    UpdateCells([cells EXCEPT ![j] = u.cell], j + 1, upd, u.st)

UpdateCells(cells, j, upd, st) ==
    IF j > Len(cells) THEN [cells |-> cells, st |-> st]
    ELSE IF cells[j].ref \in DOMAIN upd
    THEN UpdateCellsFrom(cells, j, upd, updateCellValue(cells[j], upd[cells[j].ref], st))
    ELSE UpdateCells(cells, j + 1, upd, st)

\* Step 1, outer loop: rows from index i on, stopping at the first row
\* numbered at or after the data start
RECURSIVE UpdateRows(_, _, _, _, _)
UpdateRowsFrom(rows, i, upd, dataStartRowNum, u) ==
    UpdateRows([rows EXCEPT ![i].cells = u.cells], i + 1, upd, dataStartRowNum, u.st)

UpdateRows(rows, i, upd, dataStartRowNum, st) ==
    IF i > Len(rows) \/ rows[i].r >= dataStartRowNum
    THEN [rows |-> rows, st |-> st]
    ELSE UpdateRowsFrom(rows, i, upd, dataStartRowNum,
                        UpdateCells(rows[i].cells, 1, upd, st))

\* the style of column colNum in a pattern, '0' when the pattern has no
\* cell in that column
PatternStyle(pattern, colNum) ==
    IF \E k \in 1..Len(pattern) : pattern[k].col = colNum
    THEN pattern[CHOOSE k \in 1..Len(pattern) :
                    /\ pattern[k].col = colNum
                    /\ \A m \in 1..(k - 1) : pattern[m].col # colNum].style
    ELSE "0"

\* lines 606-610: a shared-string cell holding the index g.idx
NewStringCell(c, rowNum, styleIdx, g) ==
    [cell |-> Cell(c, rowNum, styleIdx, "s", IdxText(g.idx), <<>>), st |-> g.st]

\* variant: a value is a number as soon as it starts with digits
NewCellByLeadingDigits(c, rowNum, styleIdx, cellValue, st) ==
    IF cellValue = "" THEN [cell |-> Cell(c, rowNum, styleIdx, "", "", <<>>), st |-> st]
    ELSE IF ParseInt(cellValue) # NaN
    THEN [cell |-> Cell(c, rowNum, styleIdx, "", cellValue, <<>>), st |-> st]
    ELSE NewStringCell(c, rowNum, styleIdx, getOrAddSharedString(st, cellValue))

\* lines 593-611: the new cell at (c, rowNum) and the closure state
NewCell(c, rowNum, styleIdx, cellValue, st) ==
    IF cellValue = "" THEN [cell |-> Cell(c, rowNum, styleIdx, "", "", <<>>), st |-> st]
    ELSE IF isNumeric(cellValue)
    THEN [cell |-> Cell(c, rowNum, styleIdx, "", cellValue, <<>>), st |-> st]
    ELSE NewStringCell(c, rowNum, styleIdx, getOrAddSharedString(st, cellValue))

\* Step 3, inner loop: cells c..colCount of the new row rowNum
RECURSIVE BuildCells(_, _, _, _, _, _)
PrependCell(n, rest) == [cells |-> <<n.cell>> \o rest.cells, st |-> rest.st]

BuildCellsFrom(dataRow, c, colCount, rowNum, pattern, n) ==
    PrependCell(n, BuildCells(dataRow, c + 1, colCount, rowNum, pattern, n.st))

BuildCells(dataRow, c, colCount, rowNum, pattern, st) ==
    IF c > colCount THEN [cells |-> <<>>, st |-> st]
    ELSE BuildCellsFrom(dataRow, c, colCount, rowNum, pattern,
             NewCell(c, rowNum, PatternStyle(pattern, c),
                     IF c <= Len(dataRow) THEN dataRow[c] ELSE "", st))

\* variant: the cycle runs over every sampled pattern
PatternCycleLenAll(stylePatterns) == Len(stylePatterns)

\* the pattern length used for cycling
PatternCycleLen(stylePatterns) == IF Len(stylePatterns) >= 2 THEN 2 ELSE 1

\* the pattern of the new row of JavaScript index i
PatternFor(stylePatterns, i) ==
    stylePatterns[Min(i % PatternCycleLen(stylePatterns), Len(stylePatterns) - 1) + 1]

\* Step 3, outer loop: new rows i.. (JavaScript index i), numbered from
\* dataStartRowNum + i
RECURSIVE BuildRows(_, _, _, _, _, _)
PrependRow(rowNum, ht, b, rest) ==
    [rows |-> <<[r |-> rowNum, ht |-> ht, cells |-> b.cells]>> \o rest.rows, st |-> rest.st]

BuildRowsFrom(newDataRows, i, stylePatterns, colCount, dataStartRowNum, b) ==
    PrependRow(dataStartRowNum + i, PatternFor(stylePatterns, i).ht, b,
               BuildRows(newDataRows, i + 1, stylePatterns, colCount, dataStartRowNum, b.st))

BuildRows(newDataRows, i, stylePatterns, colCount, dataStartRowNum, st) ==
    IF i >= Len(newDataRows) THEN [rows |-> <<>>, st |-> st]
    ELSE BuildRowsFrom(newDataRows, i, stylePatterns, colCount, dataStartRowNum,
             BuildCells(newDataRows[i + 1], 1, colCount, dataStartRowNum + i,
                        PatternFor(stylePatterns, i).pattern, st))

\* Step 4: position of the first row numbered at or after the footer start,
\* Len(rows) + 1 when there is none (append)
InsertPos(rows, origFooterStartRowNum) ==
    LET cand == {i \in 1..Len(rows) : rows[i].r >= origFooterStartRowNum}
    IN  IF cand = {} THEN Len(rows) + 1 ELSE CHOOSE i \in cand : \A k \in cand : i <= k

\* Step 5 on one row: renumber the row, its cell references and its formulas
ShiftRow(row, rowShift, dataStartRowNum, origDataEndRowNum, newDataEnd, origFooterStartRowNum) ==
    [r |-> row.r + rowShift,
     ht |-> row.ht,
     cells |-> [j \in 1..Len(row.cells) |->
                  [row.cells[j] EXCEPT
                     !.ref = [col |-> row.cells[j].ref.col, row |-> row.r + rowShift],
                     !.f = IF row.cells[j].f # <<>>
                           THEN updateFormulaRangesGeneric(row.cells[j].f,
                                    dataStartRowNum, origDataEndRowNum,
                                    dataStartRowNum, newDataEnd,
                                    origFooterStartRowNum, origFooterStartRowNum + rowShift)
                           ELSE row.cells[j].f]]]

\* variant: the first footer row is left out of the renumbering
ShiftFooterAfterFirst(rows, rowShift, dataStartRowNum, origDataEndRowNum, newDataEnd, origFooterStartRowNum) ==
    [i \in 1..Len(rows) |->
        IF rows[i].r > origFooterStartRowNum
        THEN ShiftRow(rows[i], rowShift, dataStartRowNum, origDataEndRowNum,
                      newDataEnd, origFooterStartRowNum)
        ELSE rows[i]]

\* Step 5: every row of the sheet numbered at or after the footer start
ShiftFooter(rows, rowShift, dataStartRowNum, origDataEndRowNum, newDataEnd, origFooterStartRowNum) ==
    IF rowShift = 0 THEN rows
    ELSE [i \in 1..Len(rows) |->
            IF rows[i].r >= origFooterStartRowNum
            THEN ShiftRow(rows[i], rowShift, dataStartRowNum, origDataEndRowNum,
                          newDataEnd, origFooterStartRowNum)
            ELSE rows[i]]

\* line 541
FooterStartRowNum(analysis) ==
    IF Len(analysis.footerZone.rows) > 0
    THEN analysis.footerZone.rows[1].rowNum
    ELSE analysis.dataZone.endRowNum + 1

\* lines 621-622 for n new rows
NewDataEnd(analysis, n) == analysis.dataZone.startRowNum + n - 1
RowShiftOf(analysis, n) == NewDataEnd(analysis, n) - analysis.dataZone.endRowNum

\* Step 1
ApplyFieldUpdates(rows, headerFieldUpdates, dataStartRowNum, st) ==
    IF DOMAIN headerFieldUpdates # {}
    THEN UpdateRows(rows, 1, headerFieldUpdates, dataStartRowNum, st)
    ELSE [rows |-> rows, st |-> st]

\* variant: the first row of the data zone is kept
RemoveDataRowsAfterFirst(rows, dataStartRowNum, origDataEndRowNum) ==
    SelectIdx(rows, 1, {i \in 1..Len(rows) :
                          ~(rows[i].r > dataStartRowNum /\ rows[i].r <= origDataEndRowNum)})

\* Step 2
RemoveDataRows(rows, dataStartRowNum, origDataEndRowNum) ==
    SelectIdx(rows, 1, {i \in 1..Len(rows) :
                          ~(rows[i].r >= dataStartRowNum /\ rows[i].r <= origDataEndRowNum)})

\* Step 4: the new rows put before position pos
InsertRows(kept, newRows, pos) ==
    SubSeq(kept, 1, pos - 1) \o newRows \o SubSeq(kept, pos, Len(kept))

\* maxCol || 8
DefaultMaxCol == 8

\* Step 7: the ref of the dimension node, when the sheet has one
UpdateDimension(dimension, analysis, n) ==
    IF dimension = <<>> THEN <<>>
    ELSE <<DimensionRef(
             colToRef(IF analysis.maxCol # 0 THEN analysis.maxCol ELSE DefaultMaxCol),
             IF Len(analysis.footerZone.rows) > 0
             THEN analysis.footerZone.rows[Len(analysis.footerZone.rows)].rowNum
                  + RowShiftOf(analysis, n)
             ELSE NewDataEnd(analysis, n))>>

\* Step 8: the ref of the autoFilter node, when the sheet has one
UpdateAutoFilter(autoFilter, origDataEndRowNum, rowShift) ==
    IF autoFilter = <<>> THEN <<>>
    ELSE IF autoFilter[1].k = "range" /\ autoFilter[1].r2 >= origDataEndRowNum
    THEN <<[autoFilter[1] EXCEPT !.r2 = @ + rowShift]>>
    ELSE autoFilter

\* Step 9: the sqref of every conditionalFormatting node
UpdateCondFmt(condFmt, origDataEndRowNum, rowShift) ==
    [i \in 1..Len(condFmt) |-> adjustRangeRef(condFmt[i], origDataEndRowNum, rowShift)]

\* Steps 4-9 and the result: the worksheet, the closure state, and
\* insertAt, the position of the first synthesized row in the returned
\* sheet (the n synthesized rows are consecutive nodes from there on)
Reassemble(origXml, analysis, n, kept, built, pos) ==
    [xml |-> [rows |-> ShiftFooter(InsertRows(kept, built.rows, pos),
                                   RowShiftOf(analysis, n),
                                   analysis.dataZone.startRowNum,
                                   analysis.dataZone.endRowNum,
                                   NewDataEnd(analysis, n),
                                   FooterStartRowNum(analysis)),
              merges |-> updateMergeCells(origXml.merges,
                                          analysis.dataZone.startRowNum,
                                          analysis.dataZone.endRowNum,
                                          NewDataEnd(analysis, n),
                                          FooterStartRowNum(analysis),
                                          RowShiftOf(analysis, n)),
              dimension |-> UpdateDimension(origXml.dimension, analysis, n),
              autoFilter |-> UpdateAutoFilter(origXml.autoFilter,
                                              analysis.dataZone.endRowNum,
                                              RowShiftOf(analysis, n)),
              condFmt |-> UpdateCondFmt(origXml.condFmt, analysis.dataZone.endRowNum,
                                        RowShiftOf(analysis, n))],
     st |-> built.st,
     insertAt |-> pos,
     rebuilt |-> TRUE]

\* Steps 2-3 on the rows left by Step 1
RebuildAfterUpdates(origXml, analysis, newDataRows, kept, built) ==
    Reassemble(origXml, analysis, Len(newDataRows), kept, built,
               InsertPos(kept, FooterStartRowNum(analysis)))

RebuildFrom(origXml, analysis, newDataRows, upd) ==
    RebuildAfterUpdates(origXml, analysis, newDataRows,
        RemoveDataRows(upd.rows, analysis.dataZone.startRowNum, analysis.dataZone.endRowNum),
        BuildRows(newDataRows, 0, analysis.dataZone.stylePatterns,
                  Len(analysis.columnHeaderRow.headers),
                  analysis.dataZone.startRowNum, upd.st))

\* the value rebuildSheetSurgical returns: origXml itself when there is no
\* style pattern (line 536)
rebuildSheetSurgical(origXml, analysis, newDataRows, st0, headerFieldUpdates) ==
    IF Len(analysis.dataZone.stylePatterns) = 0
    THEN [xml |-> origXml, st |-> st0, insertAt |-> 0, rebuilt |-> FALSE]
    ELSE RebuildFrom(origXml, analysis, newDataRows,
             ApplyFieldUpdates(origXml.rows, headerFieldUpdates,
                               analysis.dataZone.startRowNum, st0))

\* ------------------------------------------------------------------------
\* State
\* ------------------------------------------------------------------------
VARIABLES
    file,       \* the parts of the template archive handed to analyzeTemplate
    tpl,        \* templateData: the value analyzeTemplate resolved to
    analyzed,   \* tpl as analyzeTemplate returned it (history)
    calls,      \* per generateFromTemplate invocation: position and locals
    lookup      \* the last call of the closure getOrAddSharedString (history)

vars == <<file, tpl, analyzed, calls, lookup>>

Calls == {"a", "b"}

NoSheet == [rows |-> <<>>, merges |-> <<>>,
     dimension |-> <<>>, autoFilter |-> <<>>, condFmt |-> <<>>]
NoZip == [sheet |-> NoSheet, hasSst |-> FALSE, sst |-> <<>>, wbName |-> "", styles |-> ""]
NoSt == [strings |-> <<>>, raws |-> <<>>, map |-> <<>>]
NoAnalysis == [ok |-> FALSE, error |-> ""]
NoModel == [state |-> "none", error |-> "", zip |-> NoZip, sharedStrings |-> <<>>,
            rawSiElements |-> <<>>, analysis |-> NoAnalysis]

\* no call of the closure yet
NoLookup == [made |-> FALSE, key |-> "", idx |-> 0, before |-> NoSt]

IdleCall == [pc |-> "idle", rows |-> <<>>, sheetName |-> "", headerFieldUpdates |-> <<>>,
             newZipData |-> NoZip, newZip |-> NoZip, st |-> NoSt, insertAt |-> 0,
             rebuilt |-> FALSE, result |-> "", blob |-> NoZip]

\* analyzeTemplate: the model it resolves to, or the error it rejects with
TemplateData(buffer, ss, analysis) ==
    IF analysis.ok
    THEN [state |-> "ok", error |-> "", zip |-> buffer,
          sharedStrings |-> ss.strings, rawSiElements |-> ss.rawSiElements,
          analysis |-> analysis]
    ELSE [NoModel EXCEPT !.state = "failed", !.error = analysis.error]

AnalyzeWithStrings(buffer, ss) ==
    TemplateData(buffer, ss, analyzeSheet(buffer.sheet, ss.strings))

analyzeTemplate(buffer) == AnalyzeWithStrings(buffer, parseSharedStrings(buffer.sst))

\* getTemplateSummary: the fields computed from the analysis
getTemplateSummary(templateData) ==
    [columnHeaders |-> [j \in 1..Len(templateData.analysis.columnHeaderRow.headers) |->
                           templateData.analysis.columnHeaderRow.headers[j].label],
     headerRowCount |-> Len(templateData.analysis.headerZone.rows) + 1,
     dataRowCount |-> Len(templateData.analysis.dataZone.dataRows),
     footerRowCount |-> Len(templateData.analysis.footerZone.rows),
     hasCategories |-> Len(templateData.analysis.dataZone.categoryRows) > 0,
     categoryCount |-> Len(templateData.analysis.dataZone.categoryRows),
     maxColumns |-> templateData.analysis.maxCol,
     mergeCount |-> Len(templateData.analysis.mergeCells)]

\* ------------------------------------------------------------------------
\* generateFromTemplate, one operator per stretch between suspension points
\* ------------------------------------------------------------------------
\* lines 469-490: the closure state, copied from the template's arrays
InitialSt(origSharedStrings, rawSiElements) ==
    [strings |-> origSharedStrings, raws |-> rawSiElements,
     map |-> PreIndex(origSharedStrings)]

\* variant: newSharedStrings is the template's own array, not a copy
origSharedStringsAliased(origSharedStrings, newSharedStrings) == newSharedStrings

\* lines 469-470 copy the arrays with a spread, so the pushes made to the
\* copies leave the template's arrays as they were
origSharedStringsAfter(origSharedStrings, newSharedStrings) == origSharedStrings
rawSiElementsAfter(rawSiElements, newRawSiElements) == rawSiElements

\* variant: the rewritten parts are written into the template's archive
templateZipWritten(zip, newSheetXml, newSSXml) ==
    [zip EXCEPT !.sheet = newSheetXml, !.hasSst = TRUE, !.sst = newSSXml]

\* lines 497-501 write the two parts into newZip, the clone loaded at line
\* 466; the template's archive is not written
templateZipAfter(zip, newSheetXml, newSSXml) == zip

\* lines 497 and 501: newZip.file(path, text) replaces the part at path, or
\* adds it when the archive has no part at that path
writeParts(newZip, newSheetXml, newSSXml) ==
    [newZip EXCEPT !.sheet = newSheetXml, !.hasSst = TRUE, !.sst = newSSXml]

\* lines 506-510: the first sheet's name attribute replaced
renameSheet(wbName, sheetName) == escapeXml(sheetName)

\* the parts of the blob a call returns when nothing else runs
GenerateAlone(model, rows, sheetName, headerFieldUpdates) ==
    LET res == rebuildSheetSurgical(model.zip.sheet, model.analysis, rows,
                   InitialSt(model.sharedStrings, model.rawSiElements),
                   headerFieldUpdates)
    IN  [sheet |-> res.xml,
         hasSst |-> TRUE,
         sst |-> buildSharedStringsXmlPreserved(res.st.raws),
         wbName |-> IF sheetName # "" THEN renameSheet(model.zip.wbName, sheetName)
                    ELSE model.zip.wbName,
         styles |-> model.zip.styles]

\* ------------------------------------------------------------------------
\* Inputs of generateFromTemplate
\* ------------------------------------------------------------------------
RowKinds == {"known", "fresh", "short"}

\* n rows: sequence number, item text, quantity, and a fourth value beyond
\* the caption row's columns; a "short" row has two values only, a text
\* that starts with digits and a decimal fraction
NewRows(n, kind) ==
    [i \in 1..n |->
        IF kind = "short" THEN <<"3 pcs", "1.5">>
        ELSE <<ToStr(i),
               IF kind = "known" THEN "Pen" ELSE IF i % 2 = 1 THEN "Ink" ELSE "R&D",
               IF kind = "fresh" /\ i = 2 THEN "" ELSE "7",
               "extra">>]

\* the template's own data rows: the display texts of the cells of each
\* data row the analysis lists, in cell order
OwnDataRows(analysis) ==
    [i \in 1..Len(analysis.dataZone.dataRows) |->
        [j \in 1..Len(analysis.dataZone.dataRows[i].cells) |->
            analysis.dataZone.dataRows[i].cells[j].displayValue]]

\* the options of a call that feeds a template its own data rows
OwnRowOptions(model) ==
    IF model.state = "ok"
    THEN {[rows |-> OwnDataRows(model.analysis), sheetName |-> "",
           headerFieldUpdates |-> <<>>]}
    ELSE {}

A1 == [col |-> 1, row |-> 1]
B5 == [col |-> 2, row |-> 5]
C7 == [col |-> 3, row |-> 7]
I1 == [col |-> 9, row |-> 1]

NoUpdates == <<>>

\* updates of several cells: a title cell, a caption cell, a cell of a
\* later row, and a cell no template has
SeveralUpdates ==
    [ref \in {A1, B5, C7, I1} |->
        CASE ref = A1 -> "12" [] ref = B5 -> "Ink" [] ref = C7 -> "Report"
          [] ref = I1 -> "R&D"]

FieldUpdateChoices ==
    {NoUpdates, [ref \in {A1} |-> "Report"], [ref \in {A1} |-> "12"], SeveralUpdates}

SheetNameChoices == {"", "Export"}

\* the explored options for the given row counts
OptionChoices(counts) ==
    {[rows |-> NewRows(n, kind), sheetName |-> sn, headerFieldUpdates |-> u] :
        n \in counts, kind \in RowKinds, sn \in SheetNameChoices, u \in FieldUpdateChoices}

\* the options explored for interleaved calls
ConcOptionChoices(counts) ==
    {[rows |-> NewRows(n, kind), sheetName |-> "", headerFieldUpdates |-> NoUpdates] :
        n \in counts, kind \in {"known", "fresh"}}
    \cup {[rows |-> NewRows(n, "fresh"), sheetName |-> "Export",
           headerFieldUpdates |-> [ref \in {A1} |-> "Report"]] : n \in counts}

\* ------------------------------------------------------------------------
\* Actions
\* ------------------------------------------------------------------------
\* analyzeTemplate(buffer) runs to completion
AnalyzeTemplate ==
    /\ tpl.state = "none"
    /\ \E templateData \in {analyzeTemplate(file)} :
          /\ tpl' = templateData
          /\ analyzed' = templateData
    /\ UNCHANGED <<file, calls, lookup>>

\* generateFromTemplate(templateData, options) is called: line 465 suspends
StartGenerate(c, options) ==
    /\ tpl.state = "ok"
    /\ calls[c].pc = "idle"
    /\ calls' = [calls EXCEPT ![c] =
                    [IdleCall EXCEPT !.pc = "await_generate", !.rows = options.rows,
                                     !.sheetName = options.sheetName,
                                     !.headerFieldUpdates = options.headerFieldUpdates]]
    /\ UNCHANGED <<file, tpl, analyzed, lookup>>

\* line 465 resumes with the bytes of the template archive; line 466 suspends
ZipGenerated(c) ==
    /\ calls[c].pc = "await_generate"
    /\ calls' = [calls EXCEPT ![c].pc = "await_load", ![c].newZipData = tpl.zip]
    /\ UNCHANGED <<file, tpl, analyzed, lookup>>

\* line 466 resumes with the clone; lines 469-493 run; line 494 suspends
ZipLoaded(c) ==
    /\ calls[c].pc = "await_load"
    /\ calls' = [calls EXCEPT ![c].pc = "await_sheet",
                              ![c].newZip = calls[c].newZipData,
                              ![c].st = InitialSt(tpl.sharedStrings, tpl.rawSiElements)]
    /\ UNCHANGED <<file, tpl, analyzed, lookup>>

\* line 494 resumes with the worksheet text; lines 495-501 run; then line
\* 505 suspends when a sheet name is given, otherwise line 514
SheetRead(c) ==
    /\ calls[c].pc = "await_sheet"
    /\ \E res \in {rebuildSheetSurgical(tpl.zip.sheet, tpl.analysis, calls[c].rows,
                                        calls[c].st, calls[c].headerFieldUpdates)} :
       \E newSSXml \in {buildSharedStringsXmlPreserved(res.st.raws)} :
           /\ calls' = [calls EXCEPT
                  ![c].pc = IF calls[c].sheetName # "" THEN "await_workbook"
                            ELSE "await_blob",
                  ![c].st = res.st,
                  ![c].insertAt = res.insertAt,
                  ![c].rebuilt = res.rebuilt,
                  ![c].newZip = writeParts(calls[c].newZip, res.xml, newSSXml)]
           /\ tpl' = [tpl EXCEPT
                  !.sharedStrings = origSharedStringsAfter(tpl.sharedStrings, res.st.strings),
                  !.rawSiElements = rawSiElementsAfter(tpl.rawSiElements, res.st.raws),
                  !.zip = templateZipAfter(tpl.zip, res.xml, newSSXml)]
    /\ UNCHANGED <<file, analyzed, lookup>>

\* line 505 resumes with the workbook text; lines 506-510 run; line 514 suspends
WorkbookRead(c) ==
    /\ calls[c].pc = "await_workbook"
    /\ calls' = [calls EXCEPT ![c].pc = "await_blob",
                              ![c].newZip.wbName =
                                  renameSheet(calls[c].newZip.wbName, calls[c].sheetName)]
    /\ UNCHANGED <<file, tpl, analyzed, lookup>>

\* line 514 resumes with the blob, which the call returns
BlobGenerated(c) ==
    /\ calls[c].pc = "await_blob"
    /\ calls' = [calls EXCEPT ![c].pc = "done", ![c].result = "blob",
                              ![c].blob = calls[c].newZip]
    /\ UNCHANGED <<file, tpl, analyzed, lookup>>

\* one call getOrAddSS(key) of the closure of lines 472-490, made while
\* line 495 runs: the closure state changes, the value returned and the
\* state before the call are recorded
GetOrAddSS(c, key) ==
    /\ calls[c].pc = "await_sheet"
    /\ \E g \in {getOrAddSharedString(calls[c].st, key)} :
          /\ calls' = [calls EXCEPT ![c].st = g.st]
          /\ lookup' = [made |-> TRUE, key |-> key, idx |-> g.idx, before |-> calls[c].st]
    /\ UNCHANGED <<file, tpl, analyzed>>

\* the caller is finished with the blob of a completed call
Release(c) ==
    /\ calls[c].pc = "done"
    /\ calls' = [calls EXCEPT ![c] = IdleCall]
    /\ UNCHANGED <<file, tpl, analyzed, lookup>>

\* ------------------------------------------------------------------------
\* Specification: one template, any sequence of generateFromTemplate calls,
\* one call in flight at a time
\* ------------------------------------------------------------------------
\* which merge lists make sense for d data rows and f footer rows
MergeFits(kind, d, f) ==
    CASE kind \in {"none", "header"} -> TRUE
      [] kind \in {"data", "headerToData"} -> d >= 1
      [] kind \in {"footer", "headerToFooter"} -> f >= 1
      [] kind \in {"dataToFooter", "all"} -> d >= 1 /\ f >= 1

\* the explored templates: a marker caption at row 5, with or without a
\* sub-caption row, with every data count, footer count and merge list; and
\* a caption without marker at row 1, with or without a sub-caption row and
\* a footer
TemplateSheets ==
    {BuildSheet(4, "marker", p[1], p[2], p[3], p[4]) :
        p \in {q \in BOOLEAN \X (0..MaxData) \X (0..MaxFooter) \X MergeKinds :
                  MergeFits(q[4], q[2], q[3])}}
    \cup {BuildSheet(0, "plain", sub, d, f, "none") :
            sub \in BOOLEAN, d \in 0..MaxData, f \in 0..Min(MaxFooter, 1)}

\* worksheets without any cell in the first 20 rows: k empty rows, and 20
\* empty rows followed by a caption row and a data row
CaptionlessSheets ==
    {BlankSheet(k) : k \in 0..2}
    \cup {[rows |-> BlankSheet(FallbackWindow).rows
                    \o <<CaptionRow(FallbackWindow + 1, "plain"),
                         DataRow(FallbackWindow + 2, 1)>>,
           merges |-> <<>>,
     dimension |-> <<>>, autoFilter |-> <<>>, condFmt |-> <<>>]}

ArchiveOf(sheet) ==
    [sheet |-> sheet, hasSst |-> TRUE, sst |-> TplSst, wbName |-> "Sheet1", styles |-> "styles"]

\* an archive without a shared-string part
ArchiveWithoutStrings(sheet) ==
    [sheet |-> sheet, hasSst |-> FALSE, sst |-> <<>>, wbName |-> "Sheet1", styles |-> "styles"]

\* templates without a shared-string part; in the second the caption and
\* data cells start at column B
StringlessSheets ==
    {InlineSheet(1, d, foot) : d \in 1..2, foot \in {"none", "sum"}}
    \cup {InlineSheet(2, 2, "sum")}

\* caption rows the marker search has to tell from a wider or equally wide
\* row above them: a caption followed by a row without cells, a caption that
\* is the last row, a caption whose marker is in lower case, and a caption
\* at row 31
CaptionProbeSheets ==
    {ShapeSheet(<<"wide", "caption", "empty", "data", "data">>, 4, "total"),
     ShapeSheet(<<"wide", "caption">>, 3, "none"),
     ShapeSheet(<<"wide", "lower", "data", "data">>, 3, "total"),
     ShapeSheet(Repeat("title", 30) \o <<"caption", "data">>, 32, "total")}

\* rows whose first cell is not a number, between the caption row and the
\* data rows and between two data rows, with every kind of footer row;
\* and two such rows after the caption row with no data row at all
ZoneProbeSheets ==
    {ShapeSheet(<<"caption", k, "data", "data">>, 3, foot) :
        k \in {"textFirst", "inlineFirst", "blankFirst"}, foot \in FootKinds}
    \cup {ShapeSheet(<<"caption", "data", k, "data">>, 2, "total") :
             k \in {"textFirst", "inlineFirst", "blankFirst"}}
    \cup {ShapeSheet(<<"caption", "blankFirst", "inlineFirst">>, 4, "none")}

\* a caption without marker whose footer row, wider than the caption, is
\* the first row past the fallback window
WindowSheets ==
    {ShapeSheet(Repeat("empty", FallbackWindow - 3) \o <<"plain", "data", "inlineFirst">>,
                FallbackWindow - 1, "wide")}

MaxStyled == 5

StyledSheets == {StyledSheet(d) : d \in 1..MaxStyled}

\* worksheets with dimension, autoFilter and conditionalFormatting nodes
RangedSheets ==
    {RangedSheet(d, footer, "data") : d \in 1..MaxData, footer \in BOOLEAN}
    \cup {RangedSheet(d, TRUE, "footer") : d \in 1..MaxData}

InitialArchives ==
    {ArchiveOf(sheet) : sheet \in TemplateSheets \cup CaptionlessSheets
                                  \cup CaptionProbeSheets \cup ZoneProbeSheets
                                  \cup WindowSheets \cup StyledSheets
                                  \cup RangedSheets}
    \cup {ArchiveWithoutStrings(sheet) : sheet \in StringlessSheets}

Init ==
    /\ file \in InitialArchives
    /\ tpl = NoModel
    /\ analyzed = NoModel
    /\ calls = [c \in Calls |-> IdleCall]
    /\ lookup = NoLookup

Next ==
    \/ AnalyzeTemplate
    \/ \E options \in OptionChoices(0..MaxNew) : StartGenerate("a", options)
    \/ \E options \in OwnRowOptions(tpl) : StartGenerate("a", options)
    \/ ZipGenerated("a")
    \/ ZipLoaded("a")
    \/ SheetRead("a")
    \/ WorkbookRead("a")
    \/ BlobGenerated("a")
    \/ Release("a")

Spec == Init /\ [][Next]_vars

\* ------------------------------------------------------------------------
\* Properties
\* ------------------------------------------------------------------------
Done(c) == calls[c].pc = "done"

\* the analysis the calls work from
Az == analyzed.analysis
DataStart == Az.dataZone.startRowNum
DataEnd == Az.dataZone.endRowNum
OrigLen == DataEnd - DataStart + 1
Footer == Az.footerZone.rows
HasPatterns == Len(Az.dataZone.stylePatterns) > 0

\* of a completed call: the number of new rows, the rows of the output
\* sheet, its synthesized rows and the rows that follow them
NewCount(c) == Len(calls[c].rows)
OutRows(c) == calls[c].blob.sheet.rows
SynthRows(c) == SubSeq(OutRows(c), calls[c].insertAt, calls[c].insertAt + NewCount(c) - 1)
OutFooter(c) == SubSeq(OutRows(c), calls[c].insertAt + NewCount(c), Len(OutRows(c)))
RowShift(c) == NewCount(c) - OrigLen

\* C1: with at least one style pattern, the output holds the N synthesized
\* rows numbered startRowNum, startRowNum+1, ..., startRowNum+N-1, none of
\* them renumbered by the footer shift
C1_RowCountInvariant ==
    \A c \in Calls :
        (Done(c) /\ HasPatterns) =>
            /\ Len(SynthRows(c)) = NewCount(c)
            /\ \A k \in 1..NewCount(c) : SynthRows(c)[k].r = DataStart + k - 1

\* C2: every original footer row numbered r is in the output, in the same
\* order and number, with row number r + rowShift, where rowShift is the new
\* data-zone length minus the original one
C2_FooterShift ==
    \A c \in Calls :
        (Done(c) /\ HasPatterns) =>
            /\ Len(OutFooter(c)) = Len(Footer)
            /\ \A k \in 1..Len(Footer) :
                  /\ OutFooter(c)[k].r = Footer[k].rowNum + RowShift(c)
                  /\ Len(OutFooter(c)[k].cells) = Len(Footer[k].cells)
                  /\ \A j \in 1..Len(Footer[k].cells) :
                        /\ OutFooter(c)[k].cells[j].ref.col = Footer[k].cells[j].col
                        /\ OutFooter(c)[k].cells[j].ref.row = Footer[k].rowNum + RowShift(c)

C2_Witness ==
    \E c \in Calls :
        /\ Done(c) /\ HasPatterns
        /\ Len(Footer) = 2
        /\ RowShift(c) > 0

\* a two-corner range at tokens i..i+2 of formula f covering rows [lo, hi]
RangeAt(f, i, lo, hi) ==
    /\ i + 2 <= Len(f)
    /\ f[i].k = "ref" /\ f[i + 1].k = "colon" /\ f[i + 2].k = "ref"
    /\ f[i].row = lo /\ f[i + 2].row = hi

\* C3: when N differs from the original length, every footer formula range
\* that covered [dataStart, dataEnd] covers [dataStart, dataStart+N-1] in
\* the output formula
C3_FormulaRangeRepointed ==
    \A c \in Calls :
        (Done(c) /\ HasPatterns /\ RowShift(c) # 0 /\ Len(OutFooter(c)) = Len(Footer)) =>
            \A k \in 1..Len(Footer) : \A j \in 1..Len(Footer[k].cells) :
                \A i \in 1..Len(Footer[k].cells[j].formula) :
                    RangeAt(Footer[k].cells[j].formula, i, DataStart, DataEnd) =>
                        RangeAt(OutFooter(c)[k].cells[j].f, i, DataStart,
                                DataStart + NewCount(c) - 1)

IsPrefix(p, q) == Len(p) <= Len(q) /\ SubSeq(q, 1, Len(p)) = p

\* the text a shared-string cell resolves to through a shared-string part
Resolve(cell, sst) == UnescapeXml(sst[ParseInt(cell.v) + 1].text)

\* the positions of the template rows above the data zone
HeaderIdxs == {i \in 1..Len(file.sheet.rows) : file.sheet.rows[i].r < DataStart}

\* C4: the shared strings of a call keep every original entry at its index
\* (text and raw markup), entries are only appended, and every header-zone
\* shared-string cell not named in fieldUpdates resolves to its input text
C4_StringIndexStability ==
    \A c \in Calls :
        /\ calls[c].pc \in {"await_sheet", "await_workbook", "await_blob", "done"} =>
              /\ IsPrefix(analyzed.sharedStrings, calls[c].st.strings)
              /\ IsPrefix(analyzed.rawSiElements, calls[c].st.raws)
        /\ Done(c) =>
              /\ IsPrefix(file.sst, calls[c].blob.sst)
              /\ \A i \in HeaderIdxs : \A j \in 1..Len(file.sheet.rows[i].cells) :
                    LET old == file.sheet.rows[i].cells[j]
                        new == OutRows(c)[i].cells[j]
                    IN  (old.t = "s" /\ old.ref \notin DOMAIN calls[c].headerFieldUpdates) =>
                            /\ new.t = "s"
                            /\ Resolve(new, calls[c].blob.sst) = Resolve(old, file.sst)

C4_Witness ==
    \E c \in Calls :
        /\ Done(c) /\ HasPatterns
        /\ Len(calls[c].st.strings) >= Len(analyzed.sharedStrings) + 3
        /\ DOMAIN calls[c].headerFieldUpdates # {}
        /\ \E i \in HeaderIdxs : \E j \in 1..Len(file.sheet.rows[i].cells) :
              /\ file.sheet.rows[i].cells[j].t = "s"
              /\ file.sheet.rows[i].cells[j].ref \notin DOMAIN calls[c].headerFieldUpdates

\* C5: no merge range of the output overlaps the new data zone
\* [dataStart, dataStart+N-1] unless the same range was in the input, wholly
\* above the data zone
C5_MergeZoneExclusion ==
    \A c \in Calls :
        (Done(c) /\ HasPatterns) =>
            \A i \in 1..Len(calls[c].blob.sheet.merges) :
                LET m == calls[c].blob.sheet.merges[i]
                IN  (m.r1 <= DataStart + NewCount(c) - 1 /\ m.r2 >= DataStart) =>
                        /\ \E k \in 1..Len(file.sheet.merges) : file.sheet.merges[k] = m
                        /\ m.r2 < DataStart

\* C6: with no style pattern generateFromTemplate fails with NoStylePattern
\* and emits no document
C6_NoStylePatternFails ==
    \A c \in Calls :
        (Done(c) /\ ~HasPatterns) =>
            /\ calls[c].result = "NoStylePattern"
            /\ calls[c].blob = NoZip

\* no cell of the template carries a caption marker and no row from the data
\* start on carries a SUM formula or a total marker
FallbackScenario ==
    /\ tpl.state = "ok"
    /\ \A i \in 1..Len(Az.rawRows) : \A j \in 1..Len(Az.rawRows[i].cells) :
          Az.rawRows[i].cells[j].displayValue \notin NoMarkers
    /\ \A i \in Az.dataZone.startIdx..Len(Az.rawRows) : ~IsFooterMarkerRow(Az.rawRows[i])

\* C7: in the fallback scenario the caption row is the first row of greatest
\* cell count among the first 20, the footer zone is empty, and the N new
\* rows end the sheet with numbers dataStart..dataStart+N-1, unshifted
C7_FallbackAppend ==
    FallbackScenario =>
        /\ \E i \in 1..Min(Len(Az.rawRows), FallbackWindow) :
              /\ Az.rawRows[i].rowNum = Az.columnHeaderRow.rowNum
              /\ \A k \in 1..Min(Len(Az.rawRows), FallbackWindow) :
                    Len(Az.rawRows[k].cells) <= Len(Az.rawRows[i].cells)
              /\ \A k \in 1..(i - 1) : Len(Az.rawRows[k].cells) < Len(Az.rawRows[i].cells)
        /\ Footer = <<>>
        /\ \A c \in Calls :
              (Done(c) /\ HasPatterns) =>
                  /\ calls[c].insertAt + NewCount(c) - 1 = Len(OutRows(c))
                  /\ \A k \in 1..NewCount(c) :
                        OutRows(c)[calls[c].insertAt + k - 1].r = DataStart + k - 1

\* zone detection has no caption row: no row passes the marker search and
\* none of the first 20 rows has a cell
NoCaptionAnchor ==
    /\ MarkerHeaderIdx(ParseRows(file.sheet, parseSharedStrings(file.sst).strings)) = 0
    /\ \A i \in 1..Min(Len(file.sheet.rows), FallbackWindow) :
          Len(file.sheet.rows[i].cells) = 0

\* C8: when no caption row can be anchored, analyzeTemplate fails with a
\* MalformedTemplate error and returns no model
C8_MalformedTemplate ==
    (tpl.state # "none" /\ NoCaptionAnchor) =>
        /\ tpl.state = "failed"
        /\ tpl.error = "MalformedTemplate"

\* C9: the template model stays equal to what analyzeTemplate returned
\* (shared strings, raw <si> elements, analysis, archive parts)
C9_TemplateImmutable ==
    tpl.state = "ok" => tpl = analyzed

C9_Witness ==
    \E c \in Calls :
        /\ Done(c) /\ HasPatterns
        /\ Len(calls[c].st.strings) > Len(analyzed.sharedStrings)
        /\ calls[c].blob.sheet # file.sheet
        /\ calls[c].sheetName # ""

\* ------------------------------------------------------------------------
\* Specification: two generateFromTemplate calls on one template model,
\* interleaved at every suspension point
\* ------------------------------------------------------------------------
ConcDataCounts == {1, 2}
ConcNewCounts == {1, 3}

InitConc ==
    /\ \E d \in ConcDataCounts : file = ArchiveOf(BuildSheet(4, "marker", FALSE, d, 1, "footer"))
    /\ tpl = NoModel
    /\ analyzed = NoModel
    /\ calls = [c \in Calls |-> IdleCall]
    /\ lookup = NoLookup

NextConc ==
    \/ AnalyzeTemplate
    \/ \E c \in Calls :
          \/ \E options \in ConcOptionChoices(ConcNewCounts) : StartGenerate(c, options)
          \/ ZipGenerated(c)
          \/ ZipLoaded(c)
          \/ SheetRead(c)
          \/ WorkbookRead(c)
          \/ BlobGenerated(c)
          \/ Release(c)

SpecConc == InitConc /\ [][NextConc]_vars

\* C10: whatever the interleaving, the parts a call has written once its
\* rewrite is complete, and the blob it returns, are those the same call
\* produces when it runs alone on the template model
C10_ConcurrentIsolation ==
    \A c \in Calls :
        /\ calls[c].pc = "await_blob" =>
              calls[c].newZip = GenerateAlone(analyzed, calls[c].rows, calls[c].sheetName,
                                              calls[c].headerFieldUpdates)
        /\ Done(c) =>
              calls[c].blob = GenerateAlone(analyzed, calls[c].rows, calls[c].sheetName,
                                            calls[c].headerFieldUpdates)

\* both calls are suspended at line 514 at the same time, with different
\* worksheets and different shared-string tables written
C10_Witness ==
    /\ calls["a"].pc = "await_blob"
    /\ calls["b"].pc = "await_blob"
    /\ calls["a"].newZip.sheet # calls["b"].newZip.sheet
    /\ calls["a"].newZip.sst # calls["b"].newZip.sst
    /\ Len(calls["a"].newZip.sst) > Len(file.sst)
    /\ Len(calls["b"].newZip.sst) > Len(file.sst)

\* ------------------------------------------------------------------------
\* Properties of the output archive and of the zone analysis (under Spec)
\* ------------------------------------------------------------------------
\* C11: the output archive has exactly the parts of the input archive: no
\* shared-string part is added to a template that has none, the styles part
\* is the input's, and the workbook part is the input's unless a sheetName
\* is given
C11_OutputPartSet ==
    \A c \in Calls :
        Done(c) =>
            /\ calls[c].blob.hasSst = file.hasSst
            /\ calls[c].blob.styles = file.styles
            /\ calls[c].sheetName = "" => calls[c].blob.wbName = file.wbName

\* the call was given the template's own data rows and nothing else
FedOwnRows(c) ==
    /\ Done(c)
    /\ calls[c].rows = OwnDataRows(Az)
    /\ calls[c].sheetName = ""
    /\ DOMAIN calls[c].headerFieldUpdates = {}

\* C12: analysing the document generated from a template with the
\* template's own data rows gives the same column captions, maxColumns and
\* dataRowCount as analysing the template
C12_ReadBackRoundTrip ==
    \A c \in Calls :
        FedOwnRows(c) =>
            /\ analyzeTemplate(calls[c].blob).state = "ok"
            /\ getTemplateSummary(analyzeTemplate(calls[c].blob)).columnHeaders
                  = getTemplateSummary(analyzed).columnHeaders
            /\ getTemplateSummary(analyzeTemplate(calls[c].blob)).maxColumns
                  = getTemplateSummary(analyzed).maxColumns
            /\ getTemplateSummary(analyzeTemplate(calls[c].blob)).dataRowCount
                  = getTemplateSummary(analyzed).dataRowCount

Increasing(rows) == \A i \in 1..(Len(rows) - 1) : rows[i].r < rows[i + 1].r

\* C13: when the template's row numbers are strictly increasing in document
\* order, so are the row numbers of the output sheet, for every N
C13_RowNumbersIncreasing ==
    \A c \in Calls :
        (Done(c) /\ Increasing(file.sheet.rows)) => Increasing(OutRows(c))

\* the trimmed, lower-cased text, over the vocabulary
TrimLower(t) ==
    CASE t = "No." -> "no."
      [] t = "No" -> "no"
      [] t = "STT" -> "stt"
      [] OTHER -> t

LowerMarkers == {"no.", "no", "stt", "#"}

\* the row at index i qualifies as caption row by its own cells alone
Qualifies(rows, i) ==
    /\ Len(rows[i].cells) >= 3
    /\ \A j \in 1..Len(rows[i].cells) : IsShort(rows[i].cells[j].displayValue)
    /\ Cardinality({j \in 1..Len(rows[i].cells) : rows[i].cells[j].displayValue # ""}) >= 3
    /\ \E j \in 1..Len(rows[i].cells) :
          TrimLower(rows[i].cells[j].displayValue) \in LowerMarkers

\* the position of the detected caption row
HeaderPos == Len(Az.headerZone.rows) + 1

\* C14: the caption row is the first of the first 30 rows that has at least
\* 3 cells, only texts under 30 characters, at least 3 non-empty cells and a
\* cell whose trimmed lower-cased text is a marker, whatever follows it; a
\* row past the 30th is never chosen by the marker search
C14_CaptionRowSelection ==
    tpl.state = "ok" =>
        LET q == {i \in 1..Min(Len(Az.rawRows), 30) : Qualifies(Az.rawRows, i)}
        IN  /\ q # {} => HeaderPos = CHOOSE i \in q : \A k \in q : i <= k
            /\ q = {} => HeaderPos <= FallbackWindow

\* the content of the first cell of the row parses as an integer
ContentIsInt(r) ==
    /\ Len(r.cells) >= 1
    /\ r.cells[1].displayValue # ""
    /\ ParseInt(r.cells[1].displayValue) # NaN

\* C15: dataZone.startRowNum is the number of the first row after the
\* caption row whose first cell's content parses as an integer; a first
\* cell holding text through a shared-string reference is text
C15_DataZoneStart ==
    tpl.state = "ok" =>
        LET cand == {i \in (HeaderPos + 1)..Len(Az.rawRows) : ContentIsInt(Az.rawRows[i])}
        IN  cand # {} =>
                Az.dataZone.startRowNum
                    = Az.rawRows[CHOOSE i \in cand : \A k \in cand : i <= k].rowNum

\* the row holds a formula with SUM or a text with a total marker
MarksFooter(r) ==
    \E j \in 1..Len(r.cells) :
        \/ \E i \in 1..Len(r.cells[j].formula) : r.cells[j].formula[i] = TokSum
        \/ r.cells[j].displayValue \in TotalTexts

\* C16: scanning forward from the data start, dataZone.endRowNum is the
\* number of the row before the first row with a SUM formula or a total
\* marker, the last row of the sheet when there is no such row, and the
\* footer zone is exactly the rows after that row
C16_DataZoneEnd ==
    tpl.state = "ok" =>
        LET rows == Az.rawRows
            cand == {i \in Az.dataZone.startIdx..Len(rows) : MarksFooter(rows[i])}
        IN  /\ cand = {} => Az.dataZone.endRowNum = rows[Len(rows)].rowNum
            /\ cand # {} =>
                  Az.dataZone.endRowNum
                      = rows[(CHOOSE i \in cand : \A k \in cand : i <= k) - 1].rowNum
            /\ Footer = SelectIdx(rows, 1, {i \in 1..Len(rows) :
                                               rows[i].rowNum > Az.dataZone.endRowNum})

\* a data zone of two rows or more ended by a row that holds a SUM formula
\* and no total text
C16_Witness ==
    /\ tpl.state = "ok"
    /\ Len(Az.dataZone.dataRows) >= 2
    /\ Len(Footer) >= 1
    /\ \A j \in 1..Len(Footer[1].cells) : Footer[1].cells[j].displayValue \notin TotalTexts
    /\ \E j \in 1..Len(Footer[1].cells) : IncludesSUM(Footer[1].cells[j].formula)

InSeq(x, seq) == \E k \in 1..Len(seq) : seq[k] = x

\* C17: every row of [dataStart, dataEnd] whose first cell is empty or not
\* an integer and which has a non-empty cell is a category row and not a
\* data row; every row with an integer first cell is a data row and not a
\* category row
C17_CategoryClassification ==
    tpl.state = "ok" =>
        \A i \in Az.dataZone.startIdx..Az.dataZone.endIdx :
            LET r == Az.rawRows[i]
            IN  /\ (/\ ~ContentIsInt(r)
                     /\ \E j \in 1..Len(r.cells) : r.cells[j].displayValue # "") =>
                        /\ InSeq(r, Az.dataZone.categoryRows)
                        /\ ~InSeq(r, Az.dataZone.dataRows)
                /\ ContentIsInt(r) =>
                        /\ InSeq(r, Az.dataZone.dataRows)
                        /\ ~InSeq(r, Az.dataZone.categoryRows)

\* the style the pattern p holds for column col, "0" when it holds none
StyleIn(p, col) ==
    IF \E k \in 1..Len(p.pattern) : p.pattern[k].col = col
    THEN (CHOOSE e \in {p.pattern[k] : k \in 1..Len(p.pattern)} : e.col = col).style
    ELSE "0"

\* the pattern the new row of 0-based index i is to take
CycledPattern(i) ==
    Az.dataZone.stylePatterns[(i % (IF Len(Az.dataZone.stylePatterns) >= 2 THEN 2 ELSE 1)) + 1]

\* C18: the style patterns are the first (at most 4) data rows in order;
\* new row i takes its height and styles from pattern i mod L, where L is 2
\* with two example rows or more and 1 otherwise
C18_StyleSamplingCycling ==
    /\ tpl.state = "ok" =>
          /\ Len(Az.dataZone.stylePatterns) = Min(Len(Az.dataZone.dataRows), 4)
          /\ \A i \in 1..Len(Az.dataZone.stylePatterns) :
                /\ Az.dataZone.stylePatterns[i].rowNum = Az.dataZone.dataRows[i].rowNum
                /\ Az.dataZone.stylePatterns[i].ht = Az.dataZone.dataRows[i].ht
                /\ Len(Az.dataZone.stylePatterns[i].pattern) = Len(Az.dataZone.dataRows[i].cells)
                /\ \A j \in 1..Len(Az.dataZone.dataRows[i].cells) :
                      /\ Az.dataZone.stylePatterns[i].pattern[j].col
                            = Az.dataZone.dataRows[i].cells[j].col
                      /\ Az.dataZone.stylePatterns[i].pattern[j].style
                            = Az.dataZone.dataRows[i].cells[j].s
    /\ \A c \in Calls :
          (Done(c) /\ HasPatterns) =>
              \A k \in 1..NewCount(c) :
                  /\ SynthRows(c)[k].ht = CycledPattern(k - 1).ht
                  /\ \A j \in 1..Len(SynthRows(c)[k].cells) :
                        SynthRows(c)[k].cells[j].s
                            = StyleIn(CycledPattern(k - 1), SynthRows(c)[k].cells[j].ref.col)

\* five example rows of pairwise different styles, four patterns sampled,
\* five new rows or more
C18_Witness ==
    \E c \in Calls :
        /\ Done(c)
        /\ Len(Az.dataZone.dataRows) = 5
        /\ Len(Az.dataZone.stylePatterns) = 4
        /\ \A i, k \in 1..4 :
              i # k => Az.dataZone.stylePatterns[i].pattern # Az.dataZone.stylePatterns[k].pattern
        /\ NewCount(c) >= 5

\* C19: every synthesized row has one cell per column 1..(caption column
\* count), referenced (c, rowNumber), styled by the pattern or 0, and these
\* columns are the columns the caption row occupies
C19_NewRowCellLayout ==
    \A c \in Calls :
        (Done(c) /\ HasPatterns) =>
            \A k \in 1..NewCount(c) :
                /\ Len(SynthRows(c)[k].cells) = Len(Az.columnHeaderRow.headers)
                /\ \A j \in 1..Len(SynthRows(c)[k].cells) :
                      /\ SynthRows(c)[k].cells[j].ref = [col |-> j, row |-> SynthRows(c)[k].r]
                      /\ SynthRows(c)[k].cells[j].s = StyleIn(CycledPattern(k - 1), j)
                /\ {SynthRows(c)[k].cells[j].ref.col : j \in 1..Len(SynthRows(c)[k].cells)}
                      = {Az.columnHeaderRow.headers[j].col :
                            j \in 1..Len(Az.columnHeaderRow.headers)}

\* the value given for column j of new row k: '' when the row is shorter
GivenValue(c, k, j) ==
    IF j <= Len(calls[c].rows[k]) THEN calls[c].rows[k][j] ELSE ""

\* the cell is typed as the value v demands: no value node for '', an
\* untyped cell holding the text for a number, otherwise a shared-string
\* cell whose index is that of v in the call's string table
TypedAs(cell, v, c) ==
    CASE v = "" -> cell.t = "" /\ cell.v = ""
      [] v \in NumericTexts -> cell.t = "" /\ cell.v = v
      [] OTHER -> /\ cell.t = "s"
                  /\ ParseInt(cell.v) + 1 \in 1..Len(calls[c].st.strings)
                  /\ calls[c].st.strings[ParseInt(cell.v) + 1] = v
                  /\ Resolve(cell, calls[c].blob.sst) = v

\* C20: a new cell has no value node for an absent or empty value, is an
\* untyped number cell holding the value text for a numeric value, and a
\* shared-string cell holding the looked-up or inserted index otherwise;
\* header cells named in fieldUpdates are typed by the same numeric test
C20_ValueTyping ==
    \A c \in Calls :
        (Done(c) /\ HasPatterns) =>
            /\ \A k \in 1..NewCount(c) : \A j \in 1..Len(SynthRows(c)[k].cells) :
                  TypedAs(SynthRows(c)[k].cells[j], GivenValue(c, k, j), c)
            /\ \A i \in HeaderIdxs : \A j \in 1..Len(file.sheet.rows[i].cells) :
                  file.sheet.rows[i].cells[j].ref \in DOMAIN calls[c].headerFieldUpdates =>
                      TypedAs(OutRows(c)[i].cells[j],
                              calls[c].headerFieldUpdates[file.sheet.rows[i].cells[j].ref], c)

\* rows with an absent value, a decimal fraction and a text that starts
\* with digits, together with a field update
C20_Witness ==
    \E c \in Calls :
        /\ Done(c) /\ HasPatterns
        /\ NewCount(c) >= 2
        /\ \E j \in 1..Len(SynthRows(c)[1].cells) : GivenValue(c, 1, j) = "1.5"
        /\ \E j \in 1..Len(SynthRows(c)[1].cells) : GivenValue(c, 1, j) = "3 pcs"
        /\ \E j \in 1..Len(SynthRows(c)[1].cells) : j > Len(calls[c].rows[1])
        /\ \E i \in HeaderIdxs : \E j \in 1..Len(file.sheet.rows[i].cells) :
              file.sheet.rows[i].cells[j].ref \in DOMAIN calls[c].headerFieldUpdates

\* ------------------------------------------------------------------------
\* Specification of the shared-string closure alone: a template is analyzed,
\* a call reaches line 495, and getOrAddSharedString is called with any
\* sequence of texts
\* ------------------------------------------------------------------------
\* shared-string parts: the usual one, none of its entries, one with the
\* text "Pen" twice, and one that has the text "constructor"
StringTables ==
    {TplSst, <<>>, TplSst \o <<TplSst[6]>>,
     TplSst \o <<[text |-> "constructor", rich |-> FALSE, ns |-> FALSE]>>}

StringArchives == {[ArchiveOf(InlineSheet(1, 1, "none")) EXCEPT !.sst = t] : t \in StringTables}

\* the texts looked up
LookupTexts == {"Invoice", "Pen", "Ink", "R&D", "constructor", "toString"}

InitStrings ==
    /\ file \in StringArchives
    /\ tpl = NoModel
    /\ analyzed = NoModel
    /\ calls = [c \in Calls |-> IdleCall]
    /\ lookup = NoLookup

NextStrings ==
    \/ AnalyzeTemplate
    \/ \E options \in OptionChoices({1}) : StartGenerate("a", options)
    \/ ZipGenerated("a")
    \/ ZipLoaded("a")
    \/ \E key \in LookupTexts : GetOrAddSS("a", key)

SpecStrings == InitStrings /\ [][NextStrings]_vars

\* the string table of call a and its length before the last lookup
Table == calls["a"].st.strings
Held(strings, key) == \E i \in 1..Len(strings) : strings[i] = key

\* C21: getOrAddSharedString always returns an integer index i of the table
\* with table[i] equal to the text asked for; a text the table already
\* holds leaves the table as it was, a new text is appended at the previous
\* length and that index is returned; no two appended entries have the same
\* text; and the raw-element list is as long as the string list.
C21_LookupOrInsert ==
    /\ Len(calls["a"].st.raws) = Len(Table)
    /\ \A i, j \in (Len(tpl.sharedStrings) + 1)..Len(Table) :
          i # j => Table[i] # Table[j]
    /\ lookup.made =>
          /\ lookup.idx \in 0..(Len(Table) - 1)
          /\ Table[lookup.idx + 1] = lookup.key
          /\ IF Held(lookup.before.strings, lookup.key)
             THEN Table = lookup.before.strings
             ELSE /\ Table = Append(lookup.before.strings, lookup.key)
                  /\ lookup.idx = Len(lookup.before.strings)

\* no row after the caption row has a first cell that parses as an integer,
\* whether the raw value or the content of the cell is read
NoNumberedRow ==
    \A i \in (HeaderPos + 1)..Len(Az.rawRows) :
        ~FirstCellIsInt(Az.rawRows[i]) /\ ~ContentIsInt(Az.rawRows[i])

\* C22: for a sheet with no row after the caption row whose first cell is an
\* integer, startRowNum is captionRow + 2, endRowNum is captionRow + 1, there
\* is no style pattern, and the data zone is empty: endRowNum < startRowNum
\* and no row of the sheet is numbered inside it.
C22_EmptyDataZone ==
    (tpl.state = "ok" /\ NoNumberedRow) =>
        /\ DataStart = Az.columnHeaderRow.rowNum + 2
        /\ DataEnd = Az.columnHeaderRow.rowNum + 1
        /\ ~HasPatterns
        /\ DataEnd < DataStart
        /\ \A i \in 1..Len(file.sheet.rows) :
              ~(file.sheet.rows[i].r >= DataStart /\ file.sheet.rows[i].r <= DataEnd)

\* ------------------------------------------------------------------------
\* The steps of the rewrite.  The claims below are about a rewrite that
\* runs, that is, a template with at least one style pattern.
\* ------------------------------------------------------------------------
\* the entries of the call's fieldUpdates that name a cell of a template row
\* above the data zone
EffectiveUpdates(c) ==
    [ref \in {x \in DOMAIN calls[c].headerFieldUpdates :
                \E i \in HeaderIdxs : \E j \in 1..Len(file.sheet.rows[i].cells) :
                    file.sheet.rows[i].cells[j].ref = x}
        |-> calls[c].headerFieldUpdates[ref]]

\* the cell holds the value v: a number cell without type attribute for a
\* numeric v, otherwise a shared-string cell whose index resolves to v
HoldsValue(cell, v, c) ==
    IF v \in NumericTexts
    THEN cell.t = "" /\ cell.v = v
    ELSE /\ cell.t = "s"
         /\ ParseInt(cell.v) + 1 \in 1..Len(calls[c].blob.sst)
         /\ Resolve(cell, calls[c].blob.sst) = v

\* the output of the call when it is given the fieldUpdates upd instead
OutputWith(c, upd) ==
    rebuildSheetSurgical(file.sheet, Az, calls[c].rows,
                         InitialSt(analyzed.sharedStrings, analyzed.rawSiElements), upd)

\* C23: every fieldUpdates entry whose cell exists in a row above the data
\* start makes the output cell hold the value (number cell without type
\* when numeric, shared-string reference to the value's text otherwise);
\* the cell keeps its style and reference; no other cell above the data
\* start changes; and entries naming cells at or after the data start, or
\* cells that do not exist, change nothing in the output.
C23_FieldUpdates ==
    \A c \in Calls :
        (Done(c) /\ HasPatterns) =>
            /\ \A i \in HeaderIdxs :
                  /\ OutRows(c)[i].r = file.sheet.rows[i].r
                  /\ OutRows(c)[i].ht = file.sheet.rows[i].ht
                  /\ Len(OutRows(c)[i].cells) = Len(file.sheet.rows[i].cells)
                  /\ \A j \in 1..Len(file.sheet.rows[i].cells) :
                        /\ OutRows(c)[i].cells[j].ref = file.sheet.rows[i].cells[j].ref
                        /\ OutRows(c)[i].cells[j].s = file.sheet.rows[i].cells[j].s
                        /\ IF file.sheet.rows[i].cells[j].ref
                                 \in DOMAIN calls[c].headerFieldUpdates
                           THEN HoldsValue(OutRows(c)[i].cells[j],
                                    calls[c].headerFieldUpdates[file.sheet.rows[i].cells[j].ref],
                                    c)
                           ELSE OutRows(c)[i].cells[j] = file.sheet.rows[i].cells[j]
            /\ calls[c].blob.sheet = OutputWith(c, EffectiveUpdates(c)).xml
            /\ calls[c].blob.sst
                  = buildSharedStringsXmlPreserved(OutputWith(c, EffectiveUpdates(c)).st.raws)

\* a call with a numeric update of a text cell, a text update, an entry
\* naming a cell of a row after the data start and an entry naming a cell
\* the template does not have
C23_Witness ==
    \E c \in Calls :
        /\ Done(c) /\ HasPatterns
        /\ calls[c].headerFieldUpdates = SeveralUpdates
        /\ DOMAIN EffectiveUpdates(c) = {A1, B5}
        /\ \E i \in 1..Len(file.sheet.rows) :
              /\ file.sheet.rows[i].r >= DataStart
              /\ \E j \in 1..Len(file.sheet.rows[i].cells) :
                    file.sheet.rows[i].cells[j].ref = C7
        /\ \E i \in HeaderIdxs : \E j \in 1..Len(file.sheet.rows[i].cells) :
              /\ file.sheet.rows[i].cells[j].ref = A1
              /\ file.sheet.rows[i].cells[j].t = "s"
              /\ OutRows(c)[i].cells[j].t = ""


\* the row number of the first footer row of the template
FooterStart == IF Len(Footer) > 0 THEN Footer[1].rowNum ELSE DataEnd + 1

OutMerges(c) == calls[c].blob.sheet.merges
HasMerge(c, m) == \E k \in 1..Len(OutMerges(c)) : OutMerges(c)[k] = m

\* C24: (i) a merge range that starts at or after the original footer start
\* has both rows shifted by rowShift; (ii) a range that starts before the
\* footer start and ends at or after it, a range that starts inside the data
\* zone included, keeps its start row and has its end row shifted; (iii) a
\* range wholly before the data zone is unchanged; columns never change.
C24_MergeReconciliation ==
    \A c \in Calls :
        (Done(c) /\ HasPatterns) =>
            \A k \in 1..Len(file.sheet.merges) :
                LET m == file.sheet.merges[k]
                IN  /\ m.r1 >= FooterStart =>
                          HasMerge(c, [m EXCEPT !.r1 = @ + RowShift(c),
                                                !.r2 = @ + RowShift(c)])
                    /\ (m.r1 < FooterStart /\ m.r2 >= FooterStart) =>
                          HasMerge(c, [m EXCEPT !.r2 = @ + RowShift(c)])
                    /\ m.r2 < DataStart => HasMerge(c, m)


\* the range after a rewrite of range x: same corners except that the end
\* row is moved by rowShift when it is at or after the end of the data zone
EndMoved(x, c) == IF x.r2 >= DataEnd THEN [x EXCEPT !.r2 = @ + RowShift(c)] ELSE x

\* C25: every two-corner range of the autoFilter ref and of each
\* conditionalFormatting sqref whose end row is at or after the original
\* end of the data zone has its end row changed by exactly rowShift, and
\* every range that ends before it is unchanged.
C25_FilterAndFormatRanges ==
    \A c \in Calls :
        (Done(c) /\ HasPatterns) =>
            /\ Len(calls[c].blob.sheet.autoFilter) = Len(file.sheet.autoFilter)
            /\ \A i \in 1..Len(file.sheet.autoFilter) :
                  file.sheet.autoFilter[i].k = "range" =>
                      calls[c].blob.sheet.autoFilter[i] = EndMoved(file.sheet.autoFilter[i], c)
            /\ Len(calls[c].blob.sheet.condFmt) = Len(file.sheet.condFmt)
            /\ \A i \in 1..Len(file.sheet.condFmt) :
                  /\ Len(calls[c].blob.sheet.condFmt[i]) = Len(file.sheet.condFmt[i])
                  /\ \A j \in 1..Len(file.sheet.condFmt[i]) :
                        file.sheet.condFmt[i][j].k = "range" =>
                            calls[c].blob.sheet.condFmt[i][j]
                                = EndMoved(file.sheet.condFmt[i][j], c)

\* a rewrite that changes the row count of a sheet whose autoFilter ends on
\* the last data row and whose conditional formats hold a range that ends
\* on the last data row, one that ends after it and one that ends before it
C25_Witness ==
    \E c \in Calls :
        /\ Done(c) /\ HasPatterns
        /\ RowShift(c) # 0
        /\ file.sheet.autoFilter # <<>>
        /\ file.sheet.autoFilter[1].r2 = DataEnd
        /\ \E i \in 1..Len(file.sheet.condFmt) : \E j \in 1..Len(file.sheet.condFmt[i]) :
              file.sheet.condFmt[i][j].k = "range" /\ file.sheet.condFmt[i][j].r2 = DataEnd
        /\ \E i \in 1..Len(file.sheet.condFmt) : \E j \in 1..Len(file.sheet.condFmt[i]) :
              file.sheet.condFmt[i][j].k = "range" /\ file.sheet.condFmt[i][j].r2 > DataEnd
        /\ \E i \in 1..Len(file.sheet.condFmt) : \E j \in 1..Len(file.sheet.condFmt[i]) :
              file.sheet.condFmt[i][j].k = "range" /\ file.sheet.condFmt[i][j].r2 < DataEnd


\* the greatest row number among the rows of the output sheet
GreatestRow(c) ==
    CHOOSE m \in {OutRows(c)[i].r : i \in 1..Len(OutRows(c))} :
        \A i \in 1..Len(OutRows(c)) : OutRows(c)[i].r <= m

\* C26: the dimension of the output is A1:<letters of maxColumn><L>, where L
\* is the greatest row number actually present in the output sheet (the
\* last footer row after shifting, or the last new data row when there is
\* no footer), for every N.
C26_DimensionRef ==
    \A c \in Calls :
        (Done(c) /\ HasPatterns /\ file.sheet.dimension # <<>>) =>
            calls[c].blob.sheet.dimension
                = <<DimensionRef(ColLetters[Az.maxCol], GreatestRow(c))>>


\* token i of formula f is a corner of a two-corner range or its colon
InRange(f, i) ==
    \/ f[i].k = "colon"
    \/ i + 1 <= Len(f) /\ f[i + 1].k = "colon"
    \/ i >= 2 /\ f[i - 1].k = "colon"

\* C27: in every footer-row formula each single-cell reference that is not
\* part of a two-corner range and whose row is at or after the original
\* footer start is shifted by exactly rowShift with its column unchanged,
\* each single-cell reference before the footer start is unchanged, and no
\* other text of the formula is altered.
C27_SingleCellReferences ==
    \A c \in Calls :
        (Done(c) /\ HasPatterns /\ Len(OutFooter(c)) = Len(Footer)) =>
            \A k \in 1..Len(Footer) : \A j \in 1..Len(Footer[k].cells) :
                /\ Len(OutFooter(c)[k].cells[j].f) = Len(Footer[k].cells[j].formula)
                /\ \A i \in 1..Len(Footer[k].cells[j].formula) :
                      ~InRange(Footer[k].cells[j].formula, i) =>
                          OutFooter(c)[k].cells[j].f[i]
                              = IF /\ Footer[k].cells[j].formula[i].k = "ref"
                                   /\ Footer[k].cells[j].formula[i].row >= FooterStart
                                THEN TokRef(Footer[k].cells[j].formula[i].col,
                                            Footer[k].cells[j].formula[i].row + RowShift(c))
                                ELSE Footer[k].cells[j].formula[i]


\* the positions of the template rows numbered after the data zone
AfterIdxs == {i \in 1..Len(file.sheet.rows) : file.sheet.rows[i].r > DataEnd}

\* the row is row o of the template up to its number and its formulas: the
\* same height and the same cells by column, style, type and value
SameRowContent(row, o) ==
    /\ row.ht = o.ht
    /\ Len(row.cells) = Len(o.cells)
    /\ \A j \in 1..Len(o.cells) :
          /\ row.cells[j].ref.col = o.cells[j].ref.col
          /\ row.cells[j].s = o.cells[j].s
          /\ row.cells[j].t = o.cells[j].t
          /\ row.cells[j].v = o.cells[j].v

\* C28: the rewrite removes exactly the template rows numbered in
\* [dataZone.startRowNum, dataZone.endRowNum], data rows and category rows
\* alike: the output is the rows above the zone, the N new rows and the rows
\* after the zone in their order; and with empty fieldUpdates every row
\* numbered below startRowNum is unchanged.
C28_DataZoneReplaced ==
    \A c \in Calls :
        (Done(c) /\ HasPatterns) =>
            /\ Len(OutRows(c)) = Cardinality(HeaderIdxs) + NewCount(c) + Cardinality(AfterIdxs)
            /\ calls[c].insertAt = Cardinality(HeaderIdxs) + 1
            /\ \A i \in HeaderIdxs : OutRows(c)[i].r = file.sheet.rows[i].r
            /\ \A k \in 1..Cardinality(AfterIdxs) :
                  SameRowContent(OutFooter(c)[k],
                                 file.sheet.rows[Len(file.sheet.rows)
                                                 - Cardinality(AfterIdxs) + k])
            /\ DOMAIN calls[c].headerFieldUpdates = {} =>
                  \A i \in HeaderIdxs : OutRows(c)[i] = file.sheet.rows[i]

\* a data zone that holds a category row next to its data rows, replaced by
\* at least one new row, with rows above and after the zone and no update
C28_Witness ==
    \E c \in Calls :
        /\ Done(c) /\ HasPatterns
        /\ NewCount(c) >= 1
        /\ Len(Az.dataZone.categoryRows) >= 1
        /\ HeaderIdxs # {} /\ AfterIdxs # {}
        /\ DOMAIN calls[c].headerFieldUpdates = {}


\* C29: a two-corner range of a footer formula whose rows are both at or
\* after the original footer start has both corners shifted by exactly
\* rowShift; the range pass and the single-cell pass together never shift a
\* corner twice.
C29_FooterInternalRanges ==
    \A c \in Calls :
        (Done(c) /\ HasPatterns /\ Len(OutFooter(c)) = Len(Footer)) =>
            \A k \in 1..Len(Footer) : \A j \in 1..Len(Footer[k].cells) :
                \A i \in 1..Len(Footer[k].cells[j].formula) :
                    (/\ i + 2 <= Len(Footer[k].cells[j].formula)
                     /\ Footer[k].cells[j].formula[i].k = "ref"
                     /\ Footer[k].cells[j].formula[i + 1].k = "colon"
                     /\ Footer[k].cells[j].formula[i + 2].k = "ref"
                     /\ Footer[k].cells[j].formula[i].row >= FooterStart
                     /\ Footer[k].cells[j].formula[i + 2].row >= FooterStart) =>
                        RangeAt(OutFooter(c)[k].cells[j].f, i,
                                Footer[k].cells[j].formula[i].row + RowShift(c),
                                Footer[k].cells[j].formula[i + 2].row + RowShift(c))


\* the two-corner range lies wholly in the footer zone of the template
InFooterZone(x) ==
    /\ x.k = "range"
    /\ Len(Footer) > 0
    /\ x.r1 >= FooterStart
    /\ x.r2 <= Footer[Len(Footer)].rowNum

BothMoved(x, c) == [x EXCEPT !.r1 = @ + RowShift(c), !.r2 = @ + RowShift(c)]

\* C30: an autoFilter or conditionalFormatting range that lies wholly in the
\* footer zone has both its start row and its end row shifted by rowShift.
C30_FooterScopedRanges ==
    \A c \in Calls :
        (Done(c) /\ HasPatterns) =>
            /\ \A i \in 1..Len(file.sheet.autoFilter) :
                  InFooterZone(file.sheet.autoFilter[i]) =>
                      /\ Len(calls[c].blob.sheet.autoFilter) = Len(file.sheet.autoFilter)
                      /\ calls[c].blob.sheet.autoFilter[i]
                            = BothMoved(file.sheet.autoFilter[i], c)
            /\ \A i \in 1..Len(file.sheet.condFmt) : \A j \in 1..Len(file.sheet.condFmt[i]) :
                  InFooterZone(file.sheet.condFmt[i][j]) =>
                      /\ Len(calls[c].blob.sheet.condFmt) = Len(file.sheet.condFmt)
                      /\ Len(calls[c].blob.sheet.condFmt[i]) = Len(file.sheet.condFmt[i])
                      /\ calls[c].blob.sheet.condFmt[i][j]
                            = BothMoved(file.sheet.condFmt[i][j], c)

====
